---------------------------- MODULE Spec2Model ----------------------------
(***************************************************************************)
(* Competitive phone manufacturing simulation (manufacturing_sim.py).     *)
(*                                                                         *)
(* The model covers the market simulation core: PhoneBlueprint's derived   *)
(* metrics, the Player operations that touch inventory, repairs and brand  *)
(* reputation, CustomerMarket (initialize_market, calculate_phone_         *)
(* lifecycle, simulate_purchases) and Game.advance_game_month.             *)
(*                                                                         *)
(* Conventions                                                             *)
(*  - a Python dict is a sequence of <<key, value>> pairs in insertion     *)
(*    order (the order simulate_purchases iterates manufactured_phones);   *)
(*  - None is the string "None" for names and NoMonth for months;          *)
(*  - brand_reputation is a float in the code but only ever receives       *)
(*    integer deltas from 50.0, so it is an integer here;                  *)
(*  - player names are distinct: Game.main_menu only advances a month when *)
(*    the set of ready names has as many elements as there are players.    *)
(***************************************************************************)
EXTENDS Integers, Sequences, FiniteSets, TLC

VARIABLES
    players,    \* Game.players: sequence of Player records
    market,     \* Game.customer_market: CustomerMarket record
    game,       \* Game's own counters: global_month, global_tech_level, ...
    obs,        \* what the last operation did (call trace, purchases made)
    probe       \* the blueprint under study in the pure-function specifications

vars == <<players, market, game, obs, probe>>

-----------------------------------------------------------------------------
(* Constants of the program *)

CORE_PARTS == <<"ram", "soc", "screen", "battery", "camera", "casing", "storage">>
OPTIONAL_PARTS == <<"fingerprint">>
ALL_PARTS == CORE_PARTS \o OPTIONAL_PARTS
MAX_TIER == 10
MAX_BLUEPRINTS == 10
STARTING_MONEY == 100000
MANUFACTURING_LIMIT_PER_MONTH == 1000
MARKET_SIZE == 20000
BASE_REPLACEMENT_TIME == 20
GAMER_REPLACEMENT_TIME == 16
CAMERA_CHECK_INTERVAL == 3

Quality == {"Low", "Normal", "High"}

SCORING_WEIGHTS ==
    [soc |-> 5, battery |-> 4, screen |-> 3, ram |-> 3, camera |-> 2,
     storage |-> 2, casing |-> 1, fingerprint |-> 0]

PART_COSTS ==
    [soc         |-> <<15, 40, 80, 160, 320, 600, 1000, 1600, 2500, 4000>>,
     screen      |-> <<12, 30, 65, 130, 260, 480, 800, 1300, 2000, 3200>>,
     ram         |-> <<8, 20, 45, 90, 180, 350, 600, 1000, 1600, 2600>>,
     storage     |-> <<7, 18, 40, 80, 160, 300, 520, 900, 1450, 2400>>,
     battery     |-> <<5, 15, 35, 70, 140, 260, 450, 780, 1250, 2100>>,
     camera      |-> <<4, 12, 28, 60, 120, 230, 400, 700, 1100, 1900>>,
     casing      |-> <<3, 8, 20, 45, 90, 180, 320, 560, 900, 1500>>,
     fingerprint |-> <<3, 8, 18, 40, 80, 150, 270, 470, 750, 1250>>]

\* tier name and its share of the market in percent, in dict order
CUSTOMER_TIER_DISTRIBUTION ==
    << <<"Entry Level", 15>>, <<"Budget", 30>>, <<"Midrange", 40>>,
       <<"High End", 10>>, <<"Flagship", 5>> >>

\* the customer types in dict order
CustomerTypeNames ==
    <<"Gamer", "Camera Enthusiast", "Social Media User", "Storage Seeker",
      "Design Lover", "Value Hunter", "Battery Enthusiast",
      "Performance Seeker", "Display Enthusiast", "All-Rounder">>

CUSTOMER_TYPES ==
    [t \in {CustomerTypeNames[i] : i \in 1..Len(CustomerTypeNames)} |->
       CASE t = "Gamer" ->
              [soc |-> 10, ram |-> 8, battery |-> 6, screen |-> 4,
               storage |-> 3, camera |-> 2, casing |-> 1]
         [] t = "Camera Enthusiast" ->
              [camera |-> 10, screen |-> 5, storage |-> 4, soc |-> 3,
               battery |-> 3, ram |-> 2, casing |-> 2]
         [] t = "Social Media User" ->
              [camera |-> 8, screen |-> 7, battery |-> 7, storage |-> 4,
               soc |-> 3, ram |-> 2, casing |-> 3]
         [] t = "Storage Seeker" ->
              [storage |-> 10, soc |-> 4, ram |-> 4, battery |-> 4,
               camera |-> 3, screen |-> 3, casing |-> 2]
         [] t = "Design Lover" ->
              [casing |-> 10, screen |-> 7, camera |-> 5, battery |-> 3,
               soc |-> 3, ram |-> 2, storage |-> 2]
         [] t = "Value Hunter" ->
              [soc |-> 6, ram |-> 5, battery |-> 5, storage |-> 5,
               camera |-> 4, screen |-> 4, casing |-> 3]
         [] t = "Battery Enthusiast" ->
              [battery |-> 10, soc |-> 4, screen |-> 4, ram |-> 3,
               storage |-> 3, camera |-> 3, casing |-> 2]
         [] t = "Performance Seeker" ->
              [soc |-> 9, ram |-> 9, storage |-> 5, battery |-> 4,
               screen |-> 3, camera |-> 2, casing |-> 2]
         [] t = "Display Enthusiast" ->
              [screen |-> 10, camera |-> 5, casing |-> 5, battery |-> 4,
               soc |-> 3, ram |-> 3, storage |-> 2]
         [] OTHER ->
              [soc |-> 5, ram |-> 5, battery |-> 5, screen |-> 5,
               camera |-> 5, storage |-> 5, casing |-> 5]]

None == "None"
NoMonth == -1

-----------------------------------------------------------------------------
(* Helpers: sums, and Python dicts as insertion-ordered sequences of pairs *)

RECURSIVE SumSeq(_)
SumSeq(s) == IF s = <<>> THEN 0 ELSE Head(s) + SumSeq(Tail(s))

Range(s) == {s[i] : i \in 1..Len(s)}

Max(a, b) == IF a >= b THEN a ELSE b
Min(a, b) == IF a <= b THEN a ELSE b

DictHas(d, k) == \E i \in 1..Len(d) : d[i][1] = k
DictIdx(d, k) == CHOOSE i \in 1..Len(d) : d[i][1] = k
DictGet(d, k, default) == IF DictHas(d, k) THEN d[DictIdx(d, k)][2] ELSE default
DictPut(d, k, v) ==
    IF DictHas(d, k) THEN [d EXCEPT ![DictIdx(d, k)] = <<k, v>>]
    ELSE Append(d, <<k, v>>)
DictDel(d, k) == SelectSeq(d, LAMBDA e : e[1] # k)
DictKeys(d) == {d[i][1] : i \in 1..Len(d)}

-----------------------------------------------------------------------------
(* PhoneBlueprint *)

\* a blueprint: tiers and qualities are functions over ALL_PARTS
PhoneBlueprint(name, tiers, qualities, sell_price) ==
    [name |-> name, tier |-> tiers, quality |-> qualities,
     sell_price |-> sell_price]

\* twice apply_quality_multiplier, to stay in the integers
QualityMultiplier2(quality) ==
    IF quality = "Low" THEN 1 ELSE IF quality = "High" THEN 3 ELSE 2

\* get_production_cost: int() of a sum of multiples of 0.5
get_production_cost(bp) ==
    LET part2(p) == PART_COSTS[p][bp.tier[p]] * QualityMultiplier2(bp.quality[p])
        core2 == SumSeq([i \in 1..Len(CORE_PARTS) |-> part2(CORE_PARTS[i])])
        fp2 == IF bp.tier["fingerprint"] > 0 THEN part2("fingerprint") ELSE 0
    IN (core2 + fp2) \div 2

\* get_repair_return_rate in quarter percents (5.0 % = 20)
get_repair_return_rate4(bp) ==
    LET screen_reduction == (bp.tier["screen"] - 1)
                            + (IF bp.quality["screen"] = "High" THEN 1 ELSE 0)
        casing_reduction == (bp.tier["casing"] - 1)
                            + (IF bp.quality["casing"] = "High" THEN 1 ELSE 0)
    IN Max(0, 20 - screen_reduction - casing_reduction)

\* get_repair_cost: int(production cost * 0.25)
get_repair_cost(bp) == get_production_cost(bp) \div 4

calculate_score(bp) ==
    SumSeq([i \in 1..Len(CORE_PARTS) |->
              bp.tier[CORE_PARTS[i]] * SCORING_WEIGHTS[CORE_PARTS[i]]])

get_tier_name(bp, global_tech_level) ==
    LET score == calculate_score(bp)
        threshold_shift == (global_tech_level - 1) * 20
    IN IF score <= 20 + threshold_shift THEN "Entry Level"
       ELSE IF score <= 40 + threshold_shift THEN "Budget"
       ELSE IF score <= 60 + threshold_shift THEN "Midrange"
       ELSE IF score <= 80 + threshold_shift THEN "High End"
       ELSE "Flagship"

-----------------------------------------------------------------------------
(* CustomerMarket.calculate_phone_lifecycle *)

\* the parts the loops of calculate_phone_lifecycle run over
LifecycleParts(bp) ==
    IF bp.tier["fingerprint"] > 0 THEN ALL_PARTS ELSE CORE_PARTS

\* calculate_phone_lifecycle without the floor of 6
calculate_phone_lifecycle_unclamped(bp, customer_type) ==
    LET base_time == IF customer_type = "Gamer" THEN GAMER_REPLACEMENT_TIME
                     ELSE BASE_REPLACEMENT_TIME
        parts == LifecycleParts(bp)
        tier_bonus ==
            SumSeq([i \in 1..Len(parts) |->
                      IF bp.tier[parts[i]] >= 4 THEN 1
                      ELSE IF bp.tier[parts[i]] <= 2 THEN -1 ELSE 0])
        quality_bonus ==
            SumSeq([i \in 1..Len(parts) |->
                      IF bp.quality[parts[i]] = "High" THEN 1
                      ELSE IF bp.quality[parts[i]] = "Low" THEN -1 ELSE 0])
            + (IF bp.quality["battery"] = "High" THEN 1 ELSE 0)
    IN base_time + tier_bonus + quality_bonus

\* calculate_phone_lifecycle with the signs of the tier bonus exchanged
calculate_phone_lifecycle_swapped(bp, customer_type) ==
    LET base_time == IF customer_type = "Gamer" THEN GAMER_REPLACEMENT_TIME
                     ELSE BASE_REPLACEMENT_TIME
        parts == LifecycleParts(bp)
        tier_bonus ==
            SumSeq([i \in 1..Len(parts) |->
                      IF bp.tier[parts[i]] >= 4 THEN -1
                      ELSE IF bp.tier[parts[i]] <= 2 THEN 1 ELSE 0])
        quality_bonus ==
            SumSeq([i \in 1..Len(parts) |->
                      IF bp.quality[parts[i]] = "High" THEN 1
                      ELSE IF bp.quality[parts[i]] = "Low" THEN -1 ELSE 0])
            + (IF bp.quality["battery"] = "High" THEN 1 ELSE 0)
    IN Max(6, base_time + tier_bonus + quality_bonus)

calculate_phone_lifecycle(bp, customer_type) ==
    LET base_time == IF customer_type = "Gamer" THEN GAMER_REPLACEMENT_TIME
                     ELSE BASE_REPLACEMENT_TIME
        parts == LifecycleParts(bp)
        tier_bonus ==
            SumSeq([i \in 1..Len(parts) |->
                      IF bp.tier[parts[i]] >= 4 THEN 1
                      ELSE IF bp.tier[parts[i]] <= 2 THEN -1 ELSE 0])
        quality_bonus ==
            SumSeq([i \in 1..Len(parts) |->
                      IF bp.quality[parts[i]] = "High" THEN 1
                      ELSE IF bp.quality[parts[i]] = "Low" THEN -1 ELSE 0])
            + (IF bp.quality["battery"] = "High" THEN 1 ELSE 0)
        total_lifecycle == base_time + tier_bonus + quality_bonus
    IN Max(6, total_lifecycle)

-----------------------------------------------------------------------------
(* Player *)

\* Player.__init__
Player(name) ==
    [name |-> name,
     money |-> STARTING_MONEY,
     current_month |-> 1,
     unlocked_tiers |-> [p \in Range(ALL_PARTS) |-> 5],
     ongoing_rnd |-> <<>>,
     blueprints |-> <<>>,
     manufactured_phones |-> <<>>,
     manufacturing_queue |-> <<>>,
     manufacturing_used_this_month |-> 0,
     sold_devices |-> <<>>,
     pending_repairs |-> <<>>,
     brand_reputation |-> 50,
     price_history |-> <<>>,
     rejected_repairs_this_month |-> 0]

\* "for bp in self.blueprints: if bp.name == blueprint_name: ... break"
HasBlueprint(player, blueprint_name) ==
    \E i \in 1..Len(player.blueprints) : player.blueprints[i].name = blueprint_name

FindBlueprint(player, blueprint_name) ==
    player.blueprints[CHOOSE i \in 1..Len(player.blueprints) :
        /\ player.blueprints[i].name = blueprint_name
        /\ \A j \in 1..(i - 1) : player.blueprints[j].name # blueprint_name]

-----------------------------------------------------------------------------
(* CustomerGroup and CustomerMarket *)

CustomerGroup(tier, customer_type, count) ==
    [tier |-> tier, customer_type |-> customer_type, count |-> count,
     owned_phone_company |-> None, owned_phone_blueprint |-> None,
     purchase_month |-> NoMonth, last_camera_check_month |-> NoMonth]

\* CustomerMarket.__init__
CustomerMarket ==
    [customer_groups |-> <<>>, current_month |-> 0, sales_history |-> <<>>,
     is_initialized |-> FALSE]

\* TierGroups with the whole remainder-and-share logic replaced by one extra
\* customer for the first type
TierGroups_uneven(tier_name, tier_percentage) ==
    LET num_types == Len(CustomerTypeNames)
        tier_count == (MARKET_SIZE * tier_percentage) \div 100
        customers_per_type == tier_count \div num_types
    IN [i \in 1..num_types |->
          CustomerGroup(tier_name, CustomerTypeNames[i],
              customers_per_type + (IF i = 1 THEN 2 ELSE 0))]

\* the groups initialize_market creates for one tier, zero counts left out
TierGroups(tier_name, tier_percentage) ==
    LET num_types == Len(CustomerTypeNames)
        tier_count == (MARKET_SIZE * tier_percentage) \div 100
        customers_per_type == tier_count \div num_types
        remainder == tier_count % num_types
        all == [i \in 1..num_types |->
                  CustomerGroup(tier_name, CustomerTypeNames[i],
                      customers_per_type + (IF i - 1 < remainder THEN 1 ELSE 0))]
    IN SelectSeq(all, LAMBDA g : g.count > 0)

RECURSIVE AllTierGroups(_)
AllTierGroups(k) ==
    IF k > Len(CUSTOMER_TIER_DISTRIBUTION) THEN <<>>
    ELSE TierGroups(CUSTOMER_TIER_DISTRIBUTION[k][1], CUSTOMER_TIER_DISTRIBUTION[k][2])
         \o AllTierGroups(k + 1)

\* initialize_market without its is_initialized guard
initialize_market_unguarded(m) ==
    [m EXCEPT !.customer_groups = m.customer_groups \o AllTierGroups(1),
              !.is_initialized = TRUE]

initialize_market(m) ==
    IF m.is_initialized THEN m
    ELSE [m EXCEPT !.customer_groups = m.customer_groups \o AllTierGroups(1),
                   !.is_initialized = TRUE]

\* CustomerGroup.evaluate_phone times the brand multiplier
\* 1.0 + brand_reputation / 100.0 * 0.2, scaled by 250 * 500 to stay in the
\* integers: the order of two scores is the order of the exact products
\* (two floats a rounding error apart would compare as the code rounds them)
evaluate_phone250(customer_type, bp) ==
    LET preferences == CUSTOMER_TYPES[customer_type]
        score == SumSeq([i \in 1..Len(CORE_PARTS) |->
                     bp.tier[CORE_PARTS[i]] * preferences[CORE_PARTS[i]]])
    IN 250 * score - (IF customer_type = "Value Hunter" THEN bp.sell_price ELSE 0)

BrandScore(customer_type, bp, brand_reputation) ==
    evaluate_phone250(customer_type, bp) * (500 + brand_reputation)

-----------------------------------------------------------------------------
(* CustomerMarket.simulate_purchases *)

\* player_blueprints[name]: the blueprints of the player of that name
PlayerIdx(ps, name) == CHOOSE i \in 1..Len(ps) : ps[i].name = name
HasPlayer(ps, name) == \E i \in 1..Len(ps) : ps[i].name = name

\* one player's entries of available_phones: <<player index, blueprint>> for
\* every inventory entry with a positive quantity and a known blueprint
PlayerAvailable(ps, i) ==
    LET inv == ps[i].manufactured_phones
        ok == SelectSeq(inv, LAMBDA e : e[2] > 0 /\ HasBlueprint(ps[i], e[1]))
    IN [k \in 1..Len(ok) |-> <<i, FindBlueprint(ps[i], ok[k][1])>>]

RECURSIVE AvailablePhones(_, _)
AvailablePhones(ps, i) ==
    IF i > Len(ps) THEN <<>>
    ELSE PlayerAvailable(ps, i) \o AvailablePhones(ps, i + 1)

\* inventory_tracker: (player name, phone name) -> quantity at the start
InventoryTracker(ps, available_phones) ==
    [k \in 1..Len(available_phones) |->
        LET i == available_phones[k][1]
            bp == available_phones[k][2]
        IN << <<ps[i].name, bp.name>>,
              DictGet(ps[i].manufactured_phones, bp.name, 0) >>]

\* the phones of available_phones in the group's market tier
MatchingPhones(available_phones, tier, global_tech_level) ==
    SelectSeq(available_phones,
              LAMBDA a : get_tier_name(a[2], global_tech_level) = tier)

\* BestPhone with "score >= best_score": the last phone of maximal score
BestPhone_last(ps, matching_phones, customer_type) ==
    LET sc(k) == BrandScore(customer_type, matching_phones[k][2],
                            ps[matching_phones[k][1]].brand_reputation)
    IN matching_phones[CHOOSE k \in 1..Len(matching_phones) :
           /\ \A j \in 1..Len(matching_phones) : sc(j) <= sc(k)
           /\ \A j \in (k + 1)..Len(matching_phones) : sc(j) < sc(k)]

\* the loop "if score > best_score" keeps the first phone of maximal score
BestPhone(ps, matching_phones, customer_type) ==
    LET sc(k) == BrandScore(customer_type, matching_phones[k][2],
                            ps[matching_phones[k][1]].brand_reputation)
    IN matching_phones[CHOOSE k \in 1..Len(matching_phones) :
           /\ \A j \in 1..Len(matching_phones) : sc(j) <= sc(k)
           /\ \A j \in 1..(k - 1) : sc(j) < sc(k)]

\* ActualBuyCount without the min against the tracker
ActualBuyCount_unbounded(should_buy_count, available_qty) == should_buy_count

\* how many units a group may take of what the tracker still holds
ActualBuyCount(should_buy_count, available_qty) ==
    Min(should_buy_count, available_qty)

\* ClampReputation that does not clamp
ClampReputation_none(value) == value

\* max(0, min(100, reputation + change))
ClampReputation(value) == Max(0, Min(100, value))

\* lines 1461-1505: who in the group wants to buy. The result is
\* [should_buy_count, retention (change for the owning company), checked
\* (the camera check ran and is recorded in last_camera_check_month)]
Demand(ps, group, available_phones, current_month, global_tech_level) ==
    LET nothing == [should_buy_count |-> 0, retention |-> 0, checked |-> FALSE]
    IN
    IF group.owned_phone_company = None
    THEN [nothing EXCEPT !.should_buy_count = group.count]
    ELSE
      LET months_owned == current_month - group.purchase_month
          known == /\ HasPlayer(ps, group.owned_phone_company)
                   /\ HasBlueprint(ps[PlayerIdx(ps, group.owned_phone_company)],
                                   group.owned_phone_blueprint)
      IN
      IF ~known THEN nothing
      ELSE
        LET owned_blueprint ==
                FindBlueprint(ps[PlayerIdx(ps, group.owned_phone_company)],
                              group.owned_phone_blueprint)
            lifecycle == calculate_phone_lifecycle(owned_blueprint, group.customer_type)
            last_check ==
                IF group.last_camera_check_month \in {NoMonth, 0}
                THEN group.purchase_month ELSE group.last_camera_check_month
            better == \E k \in 1..Len(available_phones) :
                /\ get_tier_name(available_phones[k][2], global_tech_level) = group.tier
                /\ available_phones[k][2].tier["camera"] > owned_blueprint.tier["camera"]
        IN
        IF months_owned >= lifecycle
        THEN [should_buy_count |-> group.count,
              retention |-> IF months_owned <= 12 THEN -group.count
                            ELSE IF months_owned >= 24 THEN group.count ELSE 0,
              checked |-> FALSE]
        ELSE IF group.customer_type = "Camera Enthusiast"
                /\ current_month - last_check >= CAMERA_CHECK_INTERVAL
        THEN [should_buy_count |-> IF better THEN group.count ELSE 0,
              retention |-> IF better /\ months_owned <= 12 THEN -group.count ELSE 0,
              checked |-> TRUE]
        ELSE nothing

\* EveryoneBought that keeps the old purchase_month
EveryoneBought_old_month(group, company, blueprint_name, current_month) ==
    [group EXCEPT !.owned_phone_company = company,
                  !.owned_phone_blueprint = blueprint_name,
                  !.last_camera_check_month = current_month]

\* lines 1568-1573: everyone in the group bought
EveryoneBought(group, company, blueprint_name, current_month) ==
    [group EXCEPT !.owned_phone_company = company,
                  !.owned_phone_blueprint = blueprint_name,
                  !.purchase_month = current_month,
                  !.last_camera_check_month = current_month]

\* CompletePurchase that takes the units but books the price of one only
CompletePurchase_one_price(best_player, best_phone, actual_buy_count) ==
    [best_player EXCEPT
       !.manufactured_phones =
           DictPut(@, best_phone.name,
                   DictGet(@, best_phone.name, 0) - actual_buy_count),
       !.money = @ + best_phone.sell_price,
       !.sold_devices =
           DictPut(@, best_phone.name,
                   DictGet(@, best_phone.name, 0) + actual_buy_count)]

\* lines 1547-1554: the seller after actual_buy_count units of best_phone
\* are bought
CompletePurchase(best_player, best_phone, actual_buy_count) ==
    [best_player EXCEPT
       !.manufactured_phones =
           DictPut(@, best_phone.name,
                   DictGet(@, best_phone.name, 0) - actual_buy_count),
       !.money = @ + best_phone.sell_price * actual_buy_count,
       !.sold_devices =
           DictPut(@, best_phone.name,
                   DictGet(@, best_phone.name, 0) + actual_buy_count)]

\* the body of the loop over customer_groups (lines 1457-1573) for group i.
\* st carries the locals of simulate_purchases and the objects it mutates
ProcessGroup(st, i, available_phones, current_month, global_tech_level) ==
    LET group == st.groups[i]
        d == Demand(st.players, group, available_phones, current_month,
                    global_tech_level)
        group1 == IF d.checked
                  THEN [group EXCEPT !.last_camera_check_month = current_month]
                  ELSE group
        company == group.owned_phone_company
        st1 == [st EXCEPT
                  !.groups[i] = group1,
                  !.retention_changes =
                      IF d.retention = 0 THEN @
                      ELSE DictPut(@, company, DictGet(@, company, 0) + d.retention),
                  !.retention_events =
                      IF d.retention = 0 THEN @
                      ELSE @ \cup {[group_idx |-> i, company |-> company,
                                    months_owned |-> current_month - group.purchase_month,
                                    change |-> d.retention,
                                    expired |-> ~d.checked]}]
        matching_phones == MatchingPhones(available_phones, group.tier,
                                          global_tech_level)
    IN
    IF d.should_buy_count = 0 \/ matching_phones = <<>> THEN st1
    ELSE
      LET best == BestPhone(st.players, matching_phones, group.customer_type)
          pi == best[1]
          best_player == st.players[pi]
          best_phone == best[2]
          inventory_key == <<best_player.name, best_phone.name>>
          available_qty == DictGet(st.inventory_tracker, inventory_key, 0)
      IN
      IF available_qty <= 0 THEN st1
      ELSE
        LET actual_buy_count == ActualBuyCount(d.should_buy_count, available_qty)
            player1 == CompletePurchase(best_player, best_phone, actual_buy_count)
            bought == EveryoneBought(group1, best_player.name, best_phone.name,
                                     current_month)
            split == actual_buy_count < group.count
        IN [st1 EXCEPT
              !.players[pi] = player1,
              !.sales_by_player =
                  DictPut(@, best_player.name,
                          DictGet(@, best_player.name, 0) + actual_buy_count),
              !.sales_by_phone =
                  DictPut(@, inventory_key,
                          DictGet(@, inventory_key, 0) + actual_buy_count),
              !.inventory_tracker =
                  DictPut(@, inventory_key, available_qty - actual_buy_count),
              !.groups_to_split =
                  IF split
                  THEN Append(@, <<i, actual_buy_count, best_player.name,
                                   best_phone.name>>)
                  ELSE @,
              !.groups[i] = IF split THEN group1 ELSE bought,
              !.purchases =
                  @ \cup {[group_idx |-> i, count |-> group.count,
                           available_qty |-> available_qty,
                           actual_buy_count |-> actual_buy_count,
                           company |-> best_player.name,
                           blueprint |-> best_phone.name]},
              !.replaced =
                  IF company = None THEN @
                  ELSE @ \cup {[customer_type |-> group.customer_type,
                                months_owned |-> current_month - group.purchase_month,
                                camera_check |-> d.checked]}]

RECURSIVE ProcessGroups(_, _, _, _, _, _)
ProcessGroups(st, i, n, available_phones, current_month, global_tech_level) ==
    IF i > n THEN st
    ELSE CHOOSE r \in
           {ProcessGroups(s, i + 1, n, available_phones, current_month,
                          global_tech_level) :
              s \in {ProcessGroup(st, i, available_phones, current_month,
                                  global_tech_level)}} : TRUE

\* lines 1575-1594: the splits, last recorded first. The buyers become a new
\* group appended to customer_groups, the original group shrinks
\* SplitGroup that leaves the original group's count as it was
SplitGroup_keep(groups, sp, current_month) ==
    LET original_group == groups[sp[1]]
        buyer_group ==
            [CustomerGroup(original_group.tier, original_group.customer_type, sp[2])
               EXCEPT !.owned_phone_company = sp[3],
                      !.owned_phone_blueprint = sp[4],
                      !.purchase_month = current_month,
                      !.last_camera_check_month = current_month]
    IN Append(groups, buyer_group)

\* one entry of groups_to_split: the original group shrinks, the buyers become
\* a new group at the end of the list
SplitGroup(groups, sp, current_month) ==
    LET original_group == groups[sp[1]]
        buyer_group ==
            [CustomerGroup(original_group.tier, original_group.customer_type, sp[2])
               EXCEPT !.owned_phone_company = sp[3],
                      !.owned_phone_blueprint = sp[4],
                      !.purchase_month = current_month,
                      !.last_camera_check_month = current_month]
    IN Append([groups EXCEPT ![sp[1]].count = @ - sp[2]], buyer_group)

RECURSIVE ApplySplits(_, _, _, _)
ApplySplits(groups, groups_to_split, k, current_month) ==
    IF k < 1 THEN groups
    ELSE CHOOSE r \in
           {ApplySplits(g, groups_to_split, k - 1, current_month) :
              g \in {SplitGroup(groups, groups_to_split[k], current_month)}} : TRUE

\* lines 1596-1600: the retention changes, clamped per player
ApplyRetention(ps, retention_changes) ==
    [i \in 1..Len(ps) |->
        LET change == DictGet(retention_changes, ps[i].name, 0)
        IN IF change # 0
           THEN [ps[i] EXCEPT !.brand_reputation = ClampReputation(@ + change)]
           ELSE ps[i]]

\* simulate_purchases(players, global_tech_level) on market m: the players and
\* the market afterwards and, for observation, the replacements made
\* (customer type, months_owned and whether the camera check made it buy, of
\* every owning group that bought), the entries made in retention_changes
\* (company, months_owned, change, and whether the lifecycle had expired), the
\* purchases (the group's index and count, the available_qty found in the
\* tracker, the actual_buy_count and the winner), the
\* local sales_by_phone and the inventory_tracker as first built
simulate_purchases(ps, m, global_tech_level) ==
    LET Locals(available_phones) ==
            [groups |-> m.customer_groups,
             players |-> ps,
             inventory_tracker |-> InventoryTracker(ps, available_phones),
             sales_by_player |-> [i \in 1..Len(ps) |-> <<ps[i].name, 0>>],
             sales_by_phone |-> <<>>,
             retention_changes |-> [i \in 1..Len(ps) |-> <<ps[i].name, 0>>],
             groups_to_split |-> <<>>,
             replaced |-> {},
             retention_events |-> {},
             purchases |-> {}]
        Finish(st) ==
            [players |-> ApplyRetention(st.players, st.retention_changes),
             market |-> [m EXCEPT
                 !.customer_groups =
                     ApplySplits(st.groups, st.groups_to_split,
                                 Len(st.groups_to_split), m.current_month),
                 !.sales_history = DictPut(@, m.current_month, st.sales_by_player)],
             replaced |-> st.replaced,
             retention_events |-> st.retention_events,
             purchases |-> st.purchases,
             sales_by_phone |-> st.sales_by_phone,
             inventory_at_start |-> InventoryTracker(ps, AvailablePhones(ps, 1))]
        Pass(available_phones) ==
            IF available_phones = <<>>
            THEN [players |-> ps, market |-> m, replaced |-> {},
                  retention_events |-> {}, purchases |-> {},
                  sales_by_phone |-> <<>>, inventory_at_start |-> <<>>]
            ELSE CHOOSE r \in
                   {Finish(st) : st \in
                      {ProcessGroups(s0, 1, Len(m.customer_groups), available_phones,
                                     m.current_month, global_tech_level) :
                         s0 \in {Locals(available_phones)}}} : TRUE
    IN CHOOSE r \in {Pass(a) : a \in {AvailablePhones(ps, 1)}} : TRUE

-----------------------------------------------------------------------------
(* Player operations. An operation that returns a bool returns             *)
(* [ok, player]: the result and the player afterwards.                     *)

\* track_blueprint_price that keeps the first 3 records
track_blueprint_price_first(player, blueprint_name, price) ==
    LET old == DictGet(player.price_history, blueprint_name, <<>>)
        all == Append(old, <<player.current_month, price>>)
        kept == IF Len(all) > 3 THEN SubSeq(all, 1, 3) ELSE all
    IN [player EXCEPT !.price_history = DictPut(@, blueprint_name, kept)]

\* Player.track_blueprint_price: append (current_month, price), keep the last 3
track_blueprint_price(player, blueprint_name, price) ==
    LET old == DictGet(player.price_history, blueprint_name, <<>>)
        all == Append(old, <<player.current_month, price>>)
        kept == IF Len(all) > 3 THEN SubSeq(all, Len(all) - 2, Len(all)) ELSE all
    IN [player EXCEPT !.price_history = DictPut(@, blueprint_name, kept)]

\* Player.create_blueprint. parts and quality are functions over ALL_PARTS
\* (fingerprint tier 0: no fingerprint)
create_blueprint(player, name, parts, sell_price, quality, min_tier, max_tier) ==
    LET core_ok == \A i \in 1..Len(CORE_PARTS) :
            LET tier == parts[CORE_PARTS[i]]
            IN tier >= min_tier /\ tier <= max_tier
               /\ tier <= player.unlocked_tiers[CORE_PARTS[i]]
        fingerprint_tier == parts["fingerprint"]
        fp_ok == fingerprint_tier > 0 =>
                    /\ fingerprint_tier >= min_tier /\ fingerprint_tier <= max_tier
                    /\ fingerprint_tier <= player.unlocked_tiers["fingerprint"]
    IN
    IF \/ Len(player.blueprints) >= MAX_BLUEPRINTS
       \/ HasBlueprint(player, name)
       \/ ~core_ok
       \/ ~fp_ok
    THEN [ok |-> FALSE, player |-> player]
    ELSE [ok |-> TRUE,
          player |-> track_blueprint_price(
              [player EXCEPT !.blueprints =
                  Append(@, PhoneBlueprint(name, parts, quality, sell_price))],
              name, sell_price)]

\* manufacture_phone without the test of the remaining capacity
manufacture_phone_unlimited(player, blueprint_name, quantity) ==
    LET total_cost ==
            get_production_cost(FindBlueprint(player, blueprint_name)) * quantity
        months_to_complete == IF player.current_month = 1 THEN 0 ELSE 1
    IN
    IF ~HasBlueprint(player, blueprint_name) THEN [ok |-> FALSE, player |-> player]
    ELSE IF quantity < 1 \/ player.money < total_cost
    THEN [ok |-> FALSE, player |-> player]
    ELSE [ok |-> TRUE,
          player |-> [player EXCEPT
              !.money = @ - total_cost,
              !.manufacturing_used_this_month = @ + quantity,
              !.manufacturing_queue =
                  Append(@, <<blueprint_name, quantity, months_to_complete>>)]]

\* Player.manufacture_phone
manufacture_phone(player, blueprint_name, quantity) ==
    LET remaining_capacity ==
            MANUFACTURING_LIMIT_PER_MONTH - player.manufacturing_used_this_month
        total_cost ==
            get_production_cost(FindBlueprint(player, blueprint_name)) * quantity
        months_to_complete == IF player.current_month = 1 THEN 0 ELSE 1
    IN
    IF ~HasBlueprint(player, blueprint_name) THEN [ok |-> FALSE, player |-> player]
    ELSE IF quantity < 1 \/ quantity > remaining_capacity
            \/ player.money < total_cost
    THEN [ok |-> FALSE, player |-> player]
    ELSE [ok |-> TRUE,
          player |-> [player EXCEPT
              !.money = @ - total_cost,
              !.manufacturing_used_this_month = @ + quantity,
              !.manufacturing_queue =
                  Append(@, <<blueprint_name, quantity, months_to_complete>>)]]

\* RND_CONFIG: target tier -> <<cost, months>>
RND_CONFIG ==
    [t \in 2..10 |->
        <<(<<5000, 10000, 20000, 40000, 70000, 110000, 160000, 220000, 300000>>)[t - 1],
          t>>]

\* start_rnd without the test of the player's money
start_rnd_on_credit(player, part_type, target_tier, min_tier, max_tier) ==
    IF part_type \notin Range(ALL_PARTS) THEN [ok |-> FALSE, player |-> player]
    ELSE
      LET current_tier == player.unlocked_tiers[part_type]
      IN IF \/ target_tier < min_tier \/ target_tier > max_tier
            \/ target_tier < 2 \/ target_tier > MAX_TIER
            \/ target_tier <= current_tier
            \/ target_tier > current_tier + 1
            \/ \E k \in 1..Len(player.ongoing_rnd) :
                  /\ player.ongoing_rnd[k].part_type = part_type
                  /\ player.ongoing_rnd[k].target_tier = target_tier
         THEN [ok |-> FALSE, player |-> player]
         ELSE [ok |-> TRUE,
               player |-> [player EXCEPT
                   !.money = @ - RND_CONFIG[target_tier][1],
                   !.ongoing_rnd = Append(@,
                       [part_type |-> part_type, target_tier |-> target_tier,
                        months_remaining |-> RND_CONFIG[target_tier][2],
                        cost |-> RND_CONFIG[target_tier][1]])]]

\* Player.start_rnd
start_rnd(player, part_type, target_tier, min_tier, max_tier) ==
    IF part_type \notin Range(ALL_PARTS) THEN [ok |-> FALSE, player |-> player]
    ELSE
      LET current_tier == player.unlocked_tiers[part_type]
      IN IF \/ target_tier < min_tier \/ target_tier > max_tier
            \/ target_tier < 2 \/ target_tier > MAX_TIER
            \/ target_tier <= current_tier
            \/ target_tier > current_tier + 1
            \/ \E k \in 1..Len(player.ongoing_rnd) :
                  /\ player.ongoing_rnd[k].part_type = part_type
                  /\ player.ongoing_rnd[k].target_tier = target_tier
            \/ player.money < RND_CONFIG[target_tier][1]
         THEN [ok |-> FALSE, player |-> player]
         ELSE [ok |-> TRUE,
               player |-> [player EXCEPT
                   !.money = @ - RND_CONFIG[target_tier][1],
                   !.ongoing_rnd = Append(@,
                       [part_type |-> part_type, target_tier |-> target_tier,
                        months_remaining |-> RND_CONFIG[target_tier][2],
                        cost |-> RND_CONFIG[target_tier][1]])]]

\* delete_blueprint without the test of the inventory
delete_blueprint_in_stock(player, blueprint_name) ==
    IF \/ ~HasBlueprint(player, blueprint_name)
       \/ DictGet(player.pending_repairs, blueprint_name, 0) > 0
       \/ \E k \in 1..Len(player.manufacturing_queue) :
             player.manufacturing_queue[k][1] = blueprint_name
    THEN [ok |-> FALSE, player |-> player]
    ELSE [ok |-> TRUE,
          player |-> [player EXCEPT
              !.blueprints = SelectSeq(@, LAMBDA bp : bp.name # blueprint_name),
              !.sold_devices = DictDel(@, blueprint_name),
              !.price_history = DictDel(@, blueprint_name)]]

\* Player.delete_blueprint
delete_blueprint(player, blueprint_name) ==
    IF \/ ~HasBlueprint(player, blueprint_name)
       \/ DictGet(player.manufactured_phones, blueprint_name, 0) > 0
       \/ DictGet(player.pending_repairs, blueprint_name, 0) > 0
       \/ \E k \in 1..Len(player.manufacturing_queue) :
             player.manufacturing_queue[k][1] = blueprint_name
    THEN [ok |-> FALSE, player |-> player]
    ELSE [ok |-> TRUE,
          player |-> [player EXCEPT
              !.blueprints = SelectSeq(@, LAMBDA bp : bp.name # blueprint_name),
              !.manufactured_phones = DictDel(@, blueprint_name),
              !.sold_devices = DictDel(@, blueprint_name),
              !.price_history = DictDel(@, blueprint_name)]]

\* Player.complete_manufacturing: batches with no months remaining move to
\* manufactured_phones, in queue order
RECURSIVE CompleteBatches(_, _)
CompleteBatches(inventory, queue) ==
    IF queue = <<>> THEN inventory
    ELSE LET b == Head(queue)
         IN CompleteBatches(
                IF b[3] <= 0
                THEN DictPut(inventory, b[1], DictGet(inventory, b[1], 0) + b[2])
                ELSE inventory,
                Tail(queue))

\* complete_manufacturing that leaves the completed batches in the queue
complete_manufacturing_keep(player) ==
    [player EXCEPT
       !.manufactured_phones = CompleteBatches(@, player.manufacturing_queue)]

complete_manufacturing(player) ==
    [player EXCEPT
       !.manufactured_phones = CompleteBatches(@, player.manufacturing_queue),
       !.manufacturing_queue = SelectSeq(@, LAMBDA b : b[3] > 0)]

\* the R&D part of Player.advance_month: every project loses a month, the
\* completed ones unlock their tier (in list order) and are removed
RECURSIVE UnlockCompleted(_, _)
UnlockCompleted(unlocked_tiers, projects) ==
    IF projects = <<>> THEN unlocked_tiers
    ELSE LET proj == Head(projects)
         IN UnlockCompleted(
                IF proj.months_remaining <= 0
                THEN [unlocked_tiers EXCEPT ![proj.part_type] = proj.target_tier]
                ELSE unlocked_tiers,
                Tail(projects))

\* Player.advance_month
advance_month(player) ==
    LET aged == [i \in 1..Len(player.ongoing_rnd) |->
                    [player.ongoing_rnd[i] EXCEPT !.months_remaining = @ - 1]]
    IN [player EXCEPT
          !.current_month = @ + 1,
          !.manufacturing_used_this_month = 0,
          !.unlocked_tiers = UnlockCompleted(@, aged),
          !.ongoing_rnd = SelectSeq(aged, LAMBDA proj : proj.months_remaining > 0),
          !.manufacturing_queue =
              [i \in 1..Len(@) |-> <<@[i][1], @[i][2], @[i][3] - 1>>]]

\* the products for which generate_monthly_repairs draws random.random()
\* against a positive fraction: sold > 0, blueprint known, and
\* sold * rate / 100 not a whole number
FractionalRepairs(player) ==
    {e[1] : e \in {x \in Range(player.sold_devices) :
        /\ x[2] > 0
        /\ HasBlueprint(player, x[1])
        /\ (x[2] * get_repair_return_rate4(FindBlueprint(player, x[1]))) % 400 # 0}}

\* RepairsThisMonth with a lucky draw counted twice
RepairsThisMonth_double(player, e, lucky) ==
    IF e[2] <= 0 \/ ~HasBlueprint(player, e[1]) THEN 0
    ELSE LET rate4 == get_repair_return_rate4(FindBlueprint(player, e[1]))
         IN (e[2] * rate4) \div 400
              + (IF (e[2] * rate4) % 400 > 0 /\ e[1] \in lucky THEN 2 ELSE 0)

\* RepairsThisMonth that returns one unit of every sold name, known or not
RepairsThisMonth_unknown(player, e, lucky) == IF e[2] <= 0 THEN 0 ELSE 1

\* Player.generate_monthly_repairs. lucky: the products whose draw of
\* random.random() fell below the fractional part of the expected repairs
\* (expected = sold * rate / 100 is exact here; the code's float product can
\* differ from it by a rounding error)
RepairsThisMonth(player, e, lucky) ==
    IF e[2] <= 0 \/ ~HasBlueprint(player, e[1]) THEN 0
    ELSE LET rate4 == get_repair_return_rate4(FindBlueprint(player, e[1]))
             whole == (e[2] * rate4) \div 400
             frac == (e[2] * rate4) % 400
         IN IF rate4 > 0
            THEN whole + (IF frac > 0 /\ e[1] \in lucky THEN 1 ELSE 0)
            ELSE 0

RECURSIVE AddRepairs(_, _)
AddRepairs(pending, new_repairs) ==
    IF new_repairs = <<>> THEN pending
    ELSE LET r == Head(new_repairs)
         IN AddRepairs(DictPut(pending, r[1], DictGet(pending, r[1], 0) + r[2]),
                       Tail(new_repairs))

generate_monthly_repairs(player, lucky) ==
    LET counted == [i \in 1..Len(player.sold_devices) |->
                      <<player.sold_devices[i][1],
                        RepairsThisMonth(player, player.sold_devices[i], lucky)>>]
        new_repairs == SelectSeq(counted, LAMBDA r : r[2] > 0)
    IN [new_repairs |-> new_repairs,
        player |-> [player EXCEPT !.pending_repairs = AddRepairs(@, new_repairs)]]

\* Player.repair_devices
repair_devices(player, blueprint_name, quantity) ==
    LET pending == DictGet(player.pending_repairs, blueprint_name, 0)
        failed == [ok |-> FALSE, player |-> player]
    IN
    IF \/ ~DictHas(player.pending_repairs, blueprint_name)
       \/ pending <= 0
       \/ quantity <= 0
       \/ quantity > pending
    THEN failed
    ELSE IF ~HasBlueprint(player, blueprint_name) THEN failed
    ELSE
      LET total_cost ==
              get_repair_cost(FindBlueprint(player, blueprint_name)) * quantity
      IN IF player.money < total_cost THEN failed
         ELSE [ok |-> TRUE,
               player |-> [player EXCEPT
                   !.money = @ - total_cost,
                   !.pending_repairs =
                       IF pending - quantity <= 0 THEN DictDel(@, blueprint_name)
                       ELSE DictPut(@, blueprint_name, pending - quantity)]]

\* reject_repairs without the test quantity > pending
reject_repairs_any_quantity(player, blueprint_name, quantity) ==
    LET pending == DictGet(player.pending_repairs, blueprint_name, 0)
    IN
    IF \/ ~DictHas(player.pending_repairs, blueprint_name)
       \/ pending <= 0
       \/ quantity <= 0
    THEN [ok |-> FALSE, player |-> player]
    ELSE [ok |-> TRUE,
          player |-> [player EXCEPT
              !.pending_repairs =
                  IF pending - quantity <= 0 THEN DictDel(@, blueprint_name)
                  ELSE DictPut(@, blueprint_name, pending - quantity),
              !.rejected_repairs_this_month = @ + quantity]]

\* Player.reject_repairs
reject_repairs(player, blueprint_name, quantity) ==
    LET pending == DictGet(player.pending_repairs, blueprint_name, 0)
    IN
    IF \/ ~DictHas(player.pending_repairs, blueprint_name)
       \/ pending <= 0
       \/ quantity <= 0
       \/ quantity > pending
    THEN [ok |-> FALSE, player |-> player]
    ELSE [ok |-> TRUE,
          player |-> [player EXCEPT
              !.pending_repairs =
                  IF pending - quantity <= 0 THEN DictDel(@, blueprint_name)
                  ELSE DictPut(@, blueprint_name, pending - quantity),
              !.rejected_repairs_this_month = @ + quantity]]


\* Player.repair_all_devices: every pending repair is paid at once; entries
\* of a name without blueprint cost nothing and are cleared with the others
RECURSIVE RepairAllCost(_, _, _)
RepairAllCost(player, pending, k) ==
    IF k > Len(pending) THEN 0
    ELSE (IF HasBlueprint(player, pending[k][1])
          THEN get_repair_cost(FindBlueprint(player, pending[k][1])) * pending[k][2]
          ELSE 0)
         + RepairAllCost(player, pending, k + 1)

repair_all_devices(player) ==
    LET total_cost == RepairAllCost(player, player.pending_repairs, 1)
    IN IF player.pending_repairs = <<>> THEN [ok |-> FALSE, player |-> player]
       ELSE IF player.money < total_cost THEN [ok |-> FALSE, player |-> player]
       ELSE [ok |-> TRUE,
             player |-> [player EXCEPT !.money = @ - total_cost,
                                       !.pending_repairs = <<>>]]

\* CheapCasingCount over the products the player has made or sold units of
CheapCasingCount_made(player, global_tech_level) ==
    Cardinality({i \in 1..Len(player.blueprints) :
        /\ get_tier_name(player.blueprints[i], global_tech_level)
               \in {"Flagship", "High End"}
        /\ player.blueprints[i].tier["casing"] <= 2
        /\ \/ DictHas(player.manufactured_phones, player.blueprints[i].name)
           \/ DictHas(player.sold_devices, player.blueprints[i].name)})

\* Player.calculate_brand_reputation_changes, signal 1: cheap casing
CheapCasingCount(player, global_tech_level) ==
    Cardinality({i \in 1..Len(player.blueprints) :
        /\ get_tier_name(player.blueprints[i], global_tech_level)
               \in {"Flagship", "High End"}
        /\ player.blueprints[i].tier["casing"] <= 2})

\* signal 2: the products with any component of the given quality (the
\* fingerprint counts when the phone has one)
QualityCount(player, q) ==
    Cardinality({i \in 1..Len(player.blueprints) :
        LET bp == player.blueprints[i]
        IN \/ \E k \in 1..Len(CORE_PARTS) : bp.quality[CORE_PARTS[k]] = q
           \/ (bp.tier["fingerprint"] > 0 /\ bp.quality["fingerprint"] = q)})

\* signal 3: a change of more than 20 % between consecutive prices of the last
\* three records (abs(p2 - p1) / p1 * 100 > 20, p1 > 0)
HasSwing(price_records) ==
    /\ Len(price_records) >= 3
    /\ LET recent == SubSeq(price_records, Len(price_records) - 2, Len(price_records))
       IN \E i \in 1..2 :
            LET price1 == recent[i][2]
                price2 == recent[i + 1][2]
                diff == IF price2 >= price1 THEN price2 - price1 ELSE price1 - price2
            IN price1 > 0 /\ diff * 100 > 20 * price1

SwingCount(player) ==
    Cardinality({i \in 1..Len(player.price_history) :
        HasSwing(player.price_history[i][2])})

\* RejectionPenalty without the cap
RejectionPenalty_uncapped(player) ==
    IF player.rejected_repairs_this_month > 0
    THEN player.rejected_repairs_this_month ELSE 0

\* signal 4 (lines 1169-1173): the repairs rejected this month, at most 10
RejectionPenalty(player) ==
    IF player.rejected_repairs_this_month > 0
    THEN Min(player.rejected_repairs_this_month, 10) ELSE 0

\* the total change of reputation the four signals add up to
ReputationChange(player, global_tech_level) ==
    - CheapCasingCount(player, global_tech_level)
    - 2 * QualityCount(player, "Low")
    + 2 * QualityCount(player, "High")
    - 2 * SwingCount(player)
    - RejectionPenalty(player)

\* lines 1175-1180: apply the change, clamped, and reset the monthly counter
ApplyReputationChange(brand_reputation, total_change) ==
    Max(0, Min(100, brand_reputation + total_change))

calculate_brand_reputation_changes(player, global_tech_level) ==
    [player EXCEPT
       !.brand_reputation =
           ApplyReputationChange(@, ReputationChange(player, global_tech_level)),
       !.rejected_repairs_this_month = 0]

-----------------------------------------------------------------------------
(* Game *)

\* Game.__init__ (players and customer_market are variables of their own)
Game ==
    [global_month |-> 1, global_tech_level |-> 1, months_until_tech_advance |-> 36]

\* Game.get_available_tier_range
get_available_tier_range(g) == <<g.global_tech_level, g.global_tech_level + 4>>

\* Game.advance_global_tech, the part that touches the players: every part is
\* unlocked at least up to the new maximum tier
RaiseUnlocked(ps, new_max) ==
    [i \in 1..Len(ps) |->
        [ps[i] EXCEPT !.unlocked_tiers =
            [part \in DOMAIN @ |-> IF @[part] < new_max THEN new_max ELSE @[part]]]]

\* The stages of Game.advance_game_month. Each takes and returns the world
\* w = [players, market, game, log, replaced, sales_by_phone,
\* inventory_at_start]; log is the trace of the calls made, in order, the last
\* three fields are what the sales pass reports.

\* 1. the sales pass, when the market has customer groups
SalesStage(w) ==
    IF w.market.customer_groups = <<>> THEN w
    ELSE CHOOSE w1 \in
           {[w EXCEPT !.players = r.players, !.market = r.market,
                      !.replaced = r.replaced,
                      !.retention_events = r.retention_events,
                      !.purchases = r.purchases,
                      !.sales_by_phone = r.sales_by_phone,
                      !.inventory_at_start = r.inventory_at_start,
                      !.log = Append(@, <<"simulate_purchases", "all">>)] :
              r \in {simulate_purchases(w.players, w.market,
                                        w.game.global_tech_level)}} : TRUE

\* 2. complete_manufacturing for every player
ManufacturingStage(w) ==
    [w EXCEPT
       !.players = [i \in 1..Len(@) |-> complete_manufacturing(@[i])],
       !.log = @ \o [i \in 1..Len(w.players) |->
                        <<"complete_manufacturing", w.players[i].name>>]]

\* 3. and 4. the global month and each player's advance_month
MonthStage(w) ==
    [w EXCEPT
       !.game.global_month = @ + 1,
       !.game.months_until_tech_advance = @ - 1,
       !.players = [i \in 1..Len(@) |-> advance_month(@[i])],
       !.log = @ \o [i \in 1..Len(w.players) |->
                        <<"advance_month", w.players[i].name>>]]

\* 4.5 generate_monthly_repairs for every player; lucky[i] are the random
\* draws of player i
RepairStage(w, lucky) ==
    [w EXCEPT
       !.players = [i \in 1..Len(@) |->
                       generate_monthly_repairs(@[i], lucky[i]).player],
       !.log = @ \o [i \in 1..Len(w.players) |->
                        <<"generate_monthly_repairs", w.players[i].name>>]]

\* 4.6 calculate_brand_reputation_changes for every player
ReputationStage(w) ==
    [w EXCEPT
       !.players = [i \in 1..Len(@) |->
           calculate_brand_reputation_changes(@[i], w.game.global_tech_level)],
       !.log = @ \o [i \in 1..Len(w.players) |->
                        <<"calculate_brand_reputation_changes", w.players[i].name>>]]

\* TechStage that advances the technology one month late and leaves the
\* market's month as it was
TechStage_late(w) ==
    LET due == w.game.months_until_tech_advance < 0
        level == IF due THEN w.game.global_tech_level + 1 ELSE w.game.global_tech_level
    IN [w EXCEPT
          !.game.global_tech_level = level,
          !.game.months_until_tech_advance = IF due THEN 36 ELSE @,
          !.players = IF due THEN RaiseUnlocked(@, level + 4) ELSE @]

\* 5. and 6. the tech advancement when due, and the market's month
TechStage(w) ==
    LET due == w.game.months_until_tech_advance <= 0
        level == IF due THEN w.game.global_tech_level + 1 ELSE w.game.global_tech_level
    IN [w EXCEPT
          !.game.global_tech_level = level,
          !.game.months_until_tech_advance = IF due THEN 36 ELSE @,
          !.players = IF due THEN RaiseUnlocked(@, level + 4) ELSE @,
          !.market.current_month = w.game.global_month]

\* AdvanceThroughMonth with complete_manufacturing ahead of the sales pass
AdvanceThroughMonth_completion_first(w) ==
    CHOOSE w3 \in
      {MonthStage(w2) : w2 \in
        {SalesStage(w1) : w1 \in {ManufacturingStage(w)}}} : TRUE

\* Game.advance_game_month, in two halves around the point where
\* generate_monthly_repairs starts drawing random numbers: steps 1 to 4 ...
AdvanceThroughMonth(w) ==
    CHOOSE w3 \in
      {MonthStage(w2) : w2 \in
        {ManufacturingStage(w1) : w1 \in {SalesStage(w)}}} : TRUE

\* ... and steps 4.5 to 6
AdvanceFromRepairs(w, lucky) ==
    CHOOSE w6 \in
      {TechStage(w5) : w5 \in
        {ReputationStage(w4) : w4 \in {RepairStage(w, lucky)}}} : TRUE

-----------------------------------------------------------------------------
(* Inputs and bounds *)

PlayerNames == <<"P1", "P2">>

\* the designs the players submit to create_blueprint. Both are Budget
\* phones at tech level 1 (scores 25 and 22)
UniformParts(tier, fingerprint_tier) ==
    [p \in Range(ALL_PARTS) |-> IF p = "fingerprint" THEN fingerprint_tier ELSE tier]
UniformQuality(q) == [p \in Range(ALL_PARTS) |-> q]

CamLo == [name |-> "CamLo",
          parts |-> [UniformParts(1, 0) EXCEPT !["soc"] = 2],
          quality |-> UniformQuality("Low"),
          sell_price |-> 100]
CamHi == [name |-> "CamHi",
          parts |-> [UniformParts(1, 0) EXCEPT !["camera"] = 2],
          quality |-> UniformQuality("High"),
          sell_price |-> 200]
Designs == {CamLo, CamHi}
GameDesigns == {CamLo}     \* the designs created through the menus

MaxMonth == 4              \* the game is followed up to this global month
MaxOrders == 1             \* manufacture_phone calls accepted in a game
RejectSizes == {5, 10}     \* quantities asked of reject_repairs
MaxRejected == 15          \* rejections a player makes within one month
OrderSizes == {100, 1000}  \* quantities asked of manufacture_phone
MaxRounds == 2             \* sales rounds the test harness runs
MonthSteps == {1, 3, 6, 24}  \* months between two rounds
StockLevels == {100, 6000} \* inventory the harness sets before a round
RejectedAtOnce == {5, 15}  \* quantities asked of reject_repairs in that scenario
PendingAtStart == {<<>>, <<<<"CamLo", 10>>>>, <<<<"TestPhone", 10>>>>,
                   <<<<"CamLo", 3>>, <<"TestPhone", 10>>>>}
                           \* pending_repairs the repair scenario starts from
MoneyAtStart == {50, STARTING_MONEY}  \* and the money (CamLo costs 9 to repair)
RepairNames == {"CamLo", "TestPhone"}  \* names asked of the two operations
RepairQuantities == {-1, 0, 3, 5, 10, 11}  \* and quantities
RetentionSteps == {6, 12, 24}  \* months between two rounds of the retention scenario
MatchReputations == {0, 50, 100}   \* brand reputations in the matching scenario
GhostEntries == {<<>>, <<<<"Ghost", 50>>>>}  \* entries of a name without blueprint
HoldSteps == {6, 24}       \* months between two passes of the reputation scenario
HoldStock == {6000}        \* inventory set before a pass of that scenario
MaxCalls == 4              \* calls made in the reputation scenario
MaxTechLevel == 6          \* global tech level of the games followed
MaxTechMonths == 2         \* months such a game is followed
MaxLoads == 1              \* saves loaded in the course of a game
MaxRaises == 2             \* tier or quality raises applied to a probe

\* obs: counters of the operations made so far (for the bounds), whether
\* initialize_market was called on an initialized market since the last sales
\* pass, and what the last sales pass and the last month advance did
Obs0 == [rounds |-> 0, orders |-> 0, calls |-> 0, reinit |-> FALSE,
         log |-> <<>>, replaced |-> {}, retention_events |-> {},
         purchases |-> {},
         sales_by_phone |-> <<>>, inventory_at_start |-> <<>>]
World(ps, m, g) ==
    [players |-> ps, market |-> m, game |-> g, log |-> <<>>, replaced |-> {},
     retention_events |-> {}, purchases |-> {},
     sales_by_phone |-> <<>>, inventory_at_start |-> <<>>]
Observe(o, w) ==
    [o EXCEPT !.log = w.log, !.replaced = w.replaced,
              !.retention_events = w.retention_events,
              !.purchases = w.purchases,
              !.sales_by_phone = w.sales_by_phone,
              !.inventory_at_start = w.inventory_at_start]
NoProbe == [kind |-> "none"]

-----------------------------------------------------------------------------
(* The game: players act through the menus, the month advances *)

Init ==
    /\ players = <<>>
    /\ market = CustomerMarket
    /\ game = Game
    /\ obs = Obs0
    /\ probe = NoProbe

\* Game.setup_players with n players
SetupPlayers(n) ==
    /\ players = <<>>
    /\ players' = [i \in 1..n |-> Player(PlayerNames[i])]
    /\ market' = [initialize_market(market) EXCEPT !.current_month = game.global_month]
    /\ UNCHANGED <<game, obs, probe>>

\* menu_create_phone: create_blueprint with the available tier range
CreateBlueprint(i, d) ==
    /\ i \in 1..Len(players)
    /\ LET range == get_available_tier_range(game)
           r == create_blueprint(players[i], d.name, d.parts, d.sell_price,
                                 d.quality, range[1], range[2])
       IN players' = [players EXCEPT ![i] = r.player]
    /\ UNCHANGED <<market, game, obs, probe>>

\* menu_manufacturing: manufacture_phone
ManufacturePhone(i, name, quantity) ==
    /\ i \in 1..Len(players)
    /\ obs.orders < MaxOrders
    /\ LET r == manufacture_phone(players[i], name, quantity)
       IN /\ players' = [players EXCEPT ![i] = r.player]
          /\ obs' = [obs EXCEPT !.orders = IF r.ok THEN @ + 1 ELSE @]
    /\ UNCHANGED <<market, game, probe>>

\* menu_repairs: reject_repairs
RejectRepairs(i, name, quantity) ==
    /\ i \in 1..Len(players)
    /\ players[i].rejected_repairs_this_month + quantity <= MaxRejected
    /\ players' = [players EXCEPT ![i] = reject_repairs(players[i], name, quantity).player]
    /\ UNCHANGED <<market, game, obs, probe>>

\* the random draws generate_monthly_repairs may make for each player: any
\* of the products with a fractional expectation may get one more repair
LuckyChoices(ps) ==
    {lucky \in [1..Len(ps) -> SUBSET {d.name : d \in Designs}] :
        \A i \in 1..Len(ps) : lucky[i] \subseteq FractionalRepairs(ps[i])}

\* Game.advance_game_month, with every outcome of the random draws; o is obs
\* with the call counted
AdvanceWorld(o) ==
    /\ players # <<>>
    /\ \E w3 \in {AdvanceThroughMonth(World(players, market, game))} :
       \E lucky \in LuckyChoices(w3.players) :
       \E w \in {AdvanceFromRepairs(w3, lucky)} :
            /\ players' = w.players
            /\ market' = w.market
            /\ game' = w.game
            /\ obs' = Observe(o, w)

\* advance_game_month where the model keeps nothing else of the game
AdvanceMonth(o) ==
    /\ AdvanceWorld(o)
    /\ UNCHANGED probe

\* all players chose Advance Month: advance_game_month
AdvanceGameMonth ==
    /\ game.global_month < MaxMonth
    /\ AdvanceMonth(obs)

Next ==
    \/ \E n \in 1..Len(PlayerNames) : SetupPlayers(n)
    \/ \E i \in 1..Len(players), d \in GameDesigns : CreateBlueprint(i, d)
    \/ \E i \in 1..Len(players), d \in GameDesigns, q \in OrderSizes :
          ManufacturePhone(i, d.name, q)
    \/ \E i \in 1..Len(players), d \in GameDesigns, q \in RejectSizes :
          RejectRepairs(i, d.name, q)
    \/ AdvanceGameMonth

Spec == Init /\ [][Next]_vars

-----------------------------------------------------------------------------
(* Properties of the game (Spec) *)

\* the calls of the last advance, by position in the trace
Called(log, k, operation) == log[k][1] = operation

\* C10: in every advance_game_month the sales pass runs before any
\* complete_manufacturing, so no unit is sold in the advance that completes
\* it (a product's sales in an advance are at most its inventory before the
\* advance), and every player's generate_monthly_repairs runs before its
\* calculate_brand_reputation_changes.
C10_StageOrder ==
    [][game'.global_month # game.global_month =>
        LET log == obs'.log
        IN /\ \E k \in 1..Len(log) : Called(log, k, "simulate_purchases")
           /\ \A a, b \in 1..Len(log) :
                 (/\ Called(log, a, "simulate_purchases")
                  /\ Called(log, b, "complete_manufacturing")) => a < b
           /\ \A i \in 1..Len(players) :
                 \E a, b \in 1..Len(log) :
                    /\ a < b
                    /\ log[a] = <<"generate_monthly_repairs", players[i].name>>
                    /\ log[b] = <<"calculate_brand_reputation_changes",
                                  players[i].name>>
           /\ \A a, b \in 1..Len(log) :
                 (/\ Called(log, a, "generate_monthly_repairs")
                  /\ Called(log, b, "calculate_brand_reputation_changes")
                  /\ log[a][2] = log[b][2]) => a < b
           /\ \A i \in 1..Len(players) :
                 \A k \in 1..Len(players'[i].sold_devices) :
                    LET e == players'[i].sold_devices[k]
                    IN e[2] - DictGet(players[i].sold_devices, e[1], 0)
                         <= DictGet(players[i].manufactured_phones, e[1], 0)]_vars

\* an advance completed a batch and sold none of it: the units are in the
\* inventory and the pass of this advance sold nothing
C10_Witness ==
    /\ \E k \in 1..Len(obs.log) : Called(obs.log, k, "complete_manufacturing")
    /\ obs.sales_by_phone = <<>>
    /\ \E i \in 1..Len(players) :
          /\ players[i].sold_devices = <<>>
          /\ \E k \in 1..Len(players[i].manufactured_phones) :
                players[i].manufactured_phones[k][2] > 0

-----------------------------------------------------------------------------
(* The market driven the way the test suite drives it: the harness builds  *)
(* players with their blueprints, initializes the market and then, round   *)
(* after round, sets an inventory, sets the market's month and calls       *)
(* simulate_purchases (test_customer_group_consolidation,                  *)
(* test_ownership_minimum_duration).                                       *)

\* a player with one blueprint, as built by the harness
Maker(name, d) ==
    [Player(name) EXCEPT
       !.blueprints = <<PhoneBlueprint(d.name, d.parts, d.quality, d.sell_price)>>]

MarketInit ==
    /\ players = <<Maker("P1", CamLo), Maker("P2", CamHi)>>
    /\ market = CustomerMarket
    /\ game = Game
    /\ obs = Obs0
    /\ probe = NoProbe

\* market.initialize_market(), at any time
InitializeMarket ==
    /\ market' = initialize_market(market)
    /\ obs' = [obs EXCEPT !.reinit = @ \/ market.is_initialized]
    /\ UNCHANGED <<players, game, probe>>

\* d months later, simulate_purchases with the inventories ps; o is obs with
\* the call counted
SalesPass(d, ps, o) ==
    /\ market.is_initialized
    /\ \E r \in {simulate_purchases(ps, [market EXCEPT !.current_month = @ + d],
                                    game.global_tech_level)} :
         /\ players' = r.players
         /\ market' = r.market
         /\ obs' = [Observe(o, [r EXCEPT !.players = <<>>] @@ [log |-> <<>>])
                      EXCEPT !.reinit = FALSE]
    /\ UNCHANGED <<game, probe>>

\* one round of the harness's loop
SalesRound(d, ps) ==
    /\ obs.rounds < MaxRounds
    /\ SalesPass(d, ps, [obs EXCEPT !.rounds = @ + 1])

\* the harness sets player i's inventory of its k-th blueprint to q first
RestockedRound(d, i, k, q) ==
    SalesRound(d, [players EXCEPT ![i].manufactured_phones =
                      DictPut(@, players[i].blueprints[k].name, q)])

\* a round with the inventories left by the rounds before
PlainRound(d) == SalesRound(d, players)

MarketNext ==
    \/ InitializeMarket
    \/ \E d \in MonthSteps, i \in 1..Len(players), q \in StockLevels :
         \E k \in 1..Len(players[i].blueprints) : RestockedRound(d, i, k, q)
    \/ \E d \in MonthSteps : PlainRound(d)

MarketSpec == MarketInit /\ [][MarketNext]_vars

-----------------------------------------------------------------------------
(* Reputation: the sales passes together with the players' repair and      *)
(* reputation operations, called in any order (test_brand_reputation calls *)
(* them one by one on players it builds).                                  *)

\* a pass after the harness set player i's inventory of its k-th blueprint
StockedPass(d, i, k, q) ==
    /\ obs.calls < MaxCalls
    /\ SalesPass(d, [players EXCEPT ![i].manufactured_phones =
                        DictPut(@, players[i].blueprints[k].name, q)],
                 [obs EXCEPT !.calls = @ + 1])

\* player.generate_monthly_repairs()
GenerateMonthlyRepairs(i, lucky) ==
    /\ obs.calls < MaxCalls
    /\ players' = [players EXCEPT ![i] = generate_monthly_repairs(@, lucky).player]
    /\ obs' = [obs EXCEPT !.calls = @ + 1]
    /\ UNCHANGED <<market, game, probe>>

\* player.reject_repairs(name, quantity)
RejectSomeRepairs(i, name, quantity) ==
    /\ obs.calls < MaxCalls
    /\ players' = [players EXCEPT ![i] = reject_repairs(@, name, quantity).player]
    /\ obs' = [obs EXCEPT !.calls = @ + 1]
    /\ UNCHANGED <<market, game, probe>>

\* player.calculate_brand_reputation_changes(global_tech_level)
CalculateBrandReputationChanges(i) ==
    /\ obs.calls < MaxCalls
    /\ players' = [players EXCEPT ![i] =
                      calculate_brand_reputation_changes(@, game.global_tech_level)]
    /\ obs' = [obs EXCEPT !.calls = @ + 1]
    /\ UNCHANGED <<market, game, probe>>

RepNext ==
    \/ InitializeMarket
    \/ \E d \in HoldSteps, i \in 1..Len(players), q \in HoldStock :
         \E k \in 1..Len(players[i].blueprints) : StockedPass(d, i, k, q)
    \/ \E i \in 1..Len(players) :
         \E lucky \in SUBSET FractionalRepairs(players[i]) :
            GenerateMonthlyRepairs(i, lucky)
    \/ \E i \in 1..Len(players), q \in RejectedAtOnce :
         \E name \in DictKeys(players[i].pending_repairs) :
            RejectSomeRepairs(i, name, q)
    \/ \E i \in 1..Len(players) : CalculateBrandReputationChanges(i)

RepSpec == MarketInit /\ [][RepNext]_vars

\* C4: every player's brand_reputation stays within 0..100 after any sequence
\* of sales passes, reject_repairs calls and calculate_brand_reputation_changes
\* calls.
C4_ReputationInRange ==
    \A i \in 1..Len(players) :
        players[i].brand_reputation >= 0 /\ players[i].brand_reputation <= 100

\* the retention of whole cohorts drove one company to 0 and another to 100
C4_Witness ==
    /\ obs.calls >= 2
    /\ \E i, j \in 1..Len(players) :
          /\ players[i].brand_reputation = 0
          /\ players[j].brand_reputation = 100

-----------------------------------------------------------------------------
(* Properties of the market (MarketSpec) *)

GroupCounts == [i \in 1..Len(market.customer_groups) |->
                  market.customer_groups[i].count]

GroupKey(g) == <<g.tier, g.customer_type, g.owned_phone_company,
                 g.owned_phone_blueprint, g.purchase_month>>

\* C1: once the market is initialized, after any sequence of sales passes the
\* counts of all customer groups sum to MARKET_SIZE and every group has at
\* least one customer.
C1_MarketSizeConserved ==
    market.is_initialized =>
        /\ SumSeq(GroupCounts) = MARKET_SIZE
        /\ \A i \in 1..Len(market.customer_groups) :
               market.customer_groups[i].count >= 1

\* a pass has split a group: part of a (tier, type) bought, the rest did not
C1_Witness ==
    /\ obs.rounds >= 1
    /\ \E i, j \in 1..Len(market.customer_groups) :
         LET a == market.customer_groups[i]
             b == market.customer_groups[j]
         IN /\ a.tier = b.tier /\ a.customer_type = b.customer_type
            /\ a.owned_phone_company = None
            /\ b.owned_phone_company # None
            /\ b.purchase_month = market.current_month

\* C2: after every sales pass no two customer groups have the same (tier,
\* customer_type, owned_phone_company, owned_phone_blueprint, purchase_month).
\* simulate_purchases has no step that merges groups, so this fails.
C2_NoDuplicateKeys ==
    \A i, j \in 1..Len(market.customer_groups) :
        i < j => GroupKey(market.customer_groups[i])
                   # GroupKey(market.customer_groups[j])

\* C3: in every sales pass the units sold of each (player, product) are at
\* most the inventory it had when the pass began, and no inventory is ever
\* negative.
C3_NoOversell ==
    /\ \A k \in 1..Len(obs.sales_by_phone) :
          obs.sales_by_phone[k][2]
              <= DictGet(obs.inventory_at_start, obs.sales_by_phone[k][1], 0)
    /\ \A i \in 1..Len(players) :
          \A k \in 1..Len(players[i].manufactured_phones) :
              players[i].manufactured_phones[k][2] >= 0

\* demand exceeded the inventory: a product sold out in the pass and a group
\* of the tier that wanted it was left without a phone
C3_Witness ==
    /\ \E k \in 1..Len(obs.sales_by_phone) :
          /\ obs.sales_by_phone[k][2] > 0
          /\ obs.sales_by_phone[k][2]
               = DictGet(obs.inventory_at_start, obs.sales_by_phone[k][1], 0)
    /\ \E i \in 1..Len(market.customer_groups) :
          /\ market.customer_groups[i].tier = "Budget"
          /\ market.customer_groups[i].owned_phone_company = None

TierSum(tier_name) ==
    SumSeq([i \in 1..Len(market.customer_groups) |->
              IF market.customer_groups[i].tier = tier_name
              THEN market.customer_groups[i].count ELSE 0])

\* C5: initialize_market on a fresh market creates groups whose counts sum to
\* MARKET_SIZE and, per tier, to the tier's percentage of it; within a tier
\* the counts of the types differ by at most one, the larger ones first in
\* the order of the types; no group owns a phone.
C5_InitialDistribution ==
    (market.is_initialized /\ obs.rounds = 0) =>
        LET groups == market.customer_groups
        IN /\ SumSeq(GroupCounts) = MARKET_SIZE
           /\ \A k \in 1..Len(CUSTOMER_TIER_DISTRIBUTION) :
                 100 * TierSum(CUSTOMER_TIER_DISTRIBUTION[k][1])
                    = MARKET_SIZE * CUSTOMER_TIER_DISTRIBUTION[k][2]
           /\ <<TierSum("Entry Level"), TierSum("Budget"), TierSum("Midrange"),
                TierSum("High End"), TierSum("Flagship")>>
                 = <<3000, 6000, 8000, 2000, 1000>>
           /\ \A i, j \in 1..Len(groups) :
                 (i < j /\ groups[i].tier = groups[j].tier) =>
                     /\ groups[i].count - groups[j].count \in {0, 1}
                     /\ \E a, b \in 1..Len(CustomerTypeNames) :
                           /\ a < b
                           /\ CustomerTypeNames[a] = groups[i].customer_type
                           /\ CustomerTypeNames[b] = groups[j].customer_type
           /\ \A i \in 1..Len(groups) :
                 /\ groups[i].owned_phone_company = None
                 /\ groups[i].owned_phone_blueprint = None
                 /\ groups[i].purchase_month = NoMonth

\* the market just initialized: every (tier, type) has its group
C5_Witness ==
    /\ market.is_initialized
    /\ obs.rounds = 0
    /\ Len(market.customer_groups)
         = Len(CUSTOMER_TIER_DISTRIBUTION) * Len(CustomerTypeNames)

\* C6: initialize_market called on an initialized market, at any later point,
\* leaves customer_groups, current_month and sales_history as they were.
C6_InitializeIdempotent ==
    [][(market.is_initialized /\ InitializeMarket) =>
          /\ market'.customer_groups = market.customer_groups
          /\ market'.current_month = market.current_month
          /\ market'.sales_history = market.sales_history
          /\ market'.is_initialized]_vars

\* initialize_market was called again after a pass that sold phones
C6_Witness ==
    /\ obs.reinit
    /\ obs.rounds >= 1
    /\ market.sales_history # <<>>
    /\ \E i \in 1..Len(market.customer_groups) :
          market.customer_groups[i].owned_phone_company # None

\* C9 (as the code has it): a group that owns a phone bought in month m buys
\* again no earlier than month m + 6, except Camera Enthusiasts, whom the
\* camera check lets buy from month m + CAMERA_CHECK_INTERVAL on.
C9_MinimumHold ==
    \A r \in obs.replaced :
        \/ r.months_owned >= 6
        \/ /\ r.customer_type = "Camera Enthusiast"
           /\ r.camera_check
           /\ r.months_owned >= CAMERA_CHECK_INTERVAL

\* Camera Enthusiasts replaced a phone three months after they bought it
C9_Witness ==
    \E r \in obs.replaced :
        /\ r.customer_type = "Camera Enthusiast"
        /\ r.camera_check
        /\ r.months_owned = CAMERA_CHECK_INTERVAL

\* C9 as stated: no group of any type buys again before month m + 6
C9_SixMonthsForAll ==
    \A r \in obs.replaced : r.months_owned >= 6

-----------------------------------------------------------------------------
(* calculate_phone_lifecycle as a function of the blueprint: the probe      *)
(* holds a blueprint and a customer type, the lifecycle computed for them,  *)
(* and what the last change of the blueprint was.                           *)

Probe(bp, customer_type) ==
    [kind |-> "lifecycle", bp |-> bp, customer_type |-> customer_type,
     lifecycle |-> calculate_phone_lifecycle(bp, customer_type),
     before |-> 0, raised |-> <<"none", "none">>, raises |-> 0]

\* the next grade up
NextQuality(q) == IF q = "Low" THEN "Normal" ELSE "High"

\* the types calculate_phone_lifecycle tells apart: Gamer and any other
ProbeTypes == {"Gamer", "All-Rounder"}

LifecycleInit ==
    /\ players = <<>>
    /\ market = CustomerMarket
    /\ game = Game
    /\ obs = Obs0
    /\ \E t \in 1..5, q \in Quality, fp \in 0..5, ct \in ProbeTypes :
         /\ fp \in {0, t}
         /\ probe = Probe(PhoneBlueprint("Probe", UniformParts(t, fp),
                                         UniformQuality(q), 100), ct)

\* the blueprint changed to bp: the lifecycle is computed again
Reprobe(bp, kind, part) ==
    /\ probe.raises < MaxRaises
    /\ probe' = [Probe(bp, probe.customer_type)
                   EXCEPT !.before = probe.lifecycle,
                          !.raised = <<kind, part>>,
                          !.raises = probe.raises + 1]
    /\ UNCHANGED <<players, market, game, obs>>

\* one component's tier raised by one, all else equal
RaiseTier(part) ==
    /\ probe.bp.tier[part] < MAX_TIER
    /\ Reprobe([probe.bp EXCEPT !.tier[part] = @ + 1], "tier", part)

\* one component's quality raised by one grade, all else equal
RaiseQuality(part) ==
    /\ probe.bp.quality[part] # "High"
    /\ Reprobe([probe.bp EXCEPT !.quality[part] = NextQuality(@)], "quality", part)

LifecycleNext ==
    \/ \E part \in Range(ALL_PARTS) : RaiseTier(part)
    \/ \E part \in Range(ALL_PARTS) : RaiseQuality(part)

LifecycleSpec == LifecycleInit /\ [][LifecycleNext]_vars

\* the last change put a fingerprint sensor on a phone that had none
FingerprintAdded ==
    /\ probe.raised = <<"tier", "fingerprint">>
    /\ probe.bp.tier["fingerprint"] = 1

C8_AtMostThirty ==
    probe.kind = "lifecycle" => probe.lifecycle \in 6..30

-----------------------------------------------------------------------------
(* Properties of one sales pass (MarketSpec) *)

\* the step is a sales pass
PassStep == obs'.rounds = obs.rounds + 1

\* units of player i's product sold in the pass just made, from its
\* sales_by_phone
UnitsSold(o, ps, i, name) == DictGet(o.sales_by_phone, <<ps[i].name, name>>, 0)

\* the people in groups that own player i's product, bought in month m
Buyers(groups, company, name, m) ==
    SumSeq([k \in 1..Len(groups) |->
              IF /\ groups[k].owned_phone_company = company
                 /\ groups[k].owned_phone_blueprint = name
                 /\ groups[k].purchase_month = m
              THEN groups[k].count ELSE 0])

\* C11: in every sales pass, for every player and product of which k units
\* are sold: the player's money grows by k * sell_price (summed over its
\* products), the inventory of the product falls by k, sold_devices of the
\* product grows by k, and k people end the pass in groups that own the
\* product with purchase_month the current month.
C11_SaleEffects ==
    [][PassStep =>
        \A i \in 1..Len(players) :
          /\ players'[i].money - players[i].money =
                SumSeq([b \in 1..Len(players[i].blueprints) |->
                          UnitsSold(obs', players, i, players[i].blueprints[b].name)
                            * players[i].blueprints[b].sell_price])
          /\ \A b \in 1..Len(players[i].blueprints) :
                LET name == players[i].blueprints[b].name
                    k == UnitsSold(obs', players, i, name)
                    key == <<players[i].name, name>>
                IN /\ DictHas(obs'.inventory_at_start, key) =>
                          DictGet(players'[i].manufactured_phones, name, 0)
                             = DictGet(obs'.inventory_at_start, key, 0) - k
                   /\ ~DictHas(obs'.inventory_at_start, key) => k = 0
                   /\ DictGet(players'[i].sold_devices, name, 0)
                         = DictGet(players[i].sold_devices, name, 0) + k
                   /\ Buyers(market'.customer_groups, players[i].name, name,
                             market'.current_month) = k]_vars

\* the second pass sold a part of a product's inventory, to groups that
\* replaced a phone
C11_Witness ==
    /\ obs.rounds >= 2
    /\ obs.replaced # {}
    /\ \E a \in 1..Len(obs.sales_by_phone) :
          /\ obs.sales_by_phone[a][2] > 0
          /\ obs.sales_by_phone[a][2]
               < DictGet(obs.inventory_at_start, obs.sales_by_phone[a][1], 0)

-----------------------------------------------------------------------------
(* Properties of the repair and reputation operations (RepSpec) *)

\* what the signals other than the rejections add up to
OtherSignals(player) ==
    - CheapCasingCount(player, game.global_tech_level)
    - 2 * QualityCount(player, "Low")
    + 2 * QualityCount(player, "High")
    - 2 * SwingCount(player)

\* C12: calculate_brand_reputation_changes of a player that rejected N repairs
\* since the last recomputation takes min(N, 10) off the reputation for them
\* (nothing when N = 0), next to the other signals and within 0..100, and
\* resets rejected_repairs_this_month to 0.
C12_RejectionPenalty ==
    [][\A i \in 1..Len(players) :
         CalculateBrandReputationChanges(i) =>
            LET N == players[i].rejected_repairs_this_month
                penalty == IF N >= 10 THEN 10 ELSE N
                expected == players[i].brand_reputation
                              + OtherSignals(players[i]) - penalty
            IN /\ players'[i].rejected_repairs_this_month = 0
               /\ players'[i].brand_reputation =
                     (IF expected < 0 THEN 0
                      ELSE IF expected > 100 THEN 100 ELSE expected)]_vars

\* P1 rejected 15 repairs and was recomputed once: 50 - 2 (Low grades) - 10
C12_Witness ==
    /\ obs.calls <= 4
    /\ players[1].brand_reputation = 38
    /\ players[1].rejected_repairs_this_month = 0
    /\ players[1].pending_repairs # <<>>

-----------------------------------------------------------------------------
(* repair_devices and reject_repairs called one after another on a player  *)
(* whose pending_repairs were set directly, as test_reject_repairs does     *)
(* (its "TestPhone" has no blueprint). probe holds the last call and what   *)
(* it returned.                                                             *)

RepairInit ==
    /\ \E pending \in PendingAtStart, money \in MoneyAtStart :
          players = <<[Maker("P1", CamLo) EXCEPT !.pending_repairs = pending,
                                                 !.money = money]>>
    /\ market = CustomerMarket
    /\ game = Game
    /\ obs = Obs0
    /\ probe = NoProbe

\* the call returned r
Returned(operation, i, name, quantity, r) ==
    /\ obs.calls < MaxCalls
    /\ players' = [players EXCEPT ![i] = r.player]
    /\ probe' = [kind |-> "call", operation |-> operation, player |-> i,
                 blueprint_name |-> name, quantity |-> quantity, ok |-> r.ok]
    /\ obs' = [obs EXCEPT !.calls = @ + 1]
    /\ UNCHANGED <<market, game>>

RepairDevices(i, name, quantity) ==
    Returned("repair_devices", i, name, quantity,
             repair_devices(players[i], name, quantity))

RejectRepairsCall(i, name, quantity) ==
    Returned("reject_repairs", i, name, quantity,
             reject_repairs(players[i], name, quantity))

RepairNext ==
    \/ \E i \in 1..Len(players), name \in RepairNames, q \in RepairQuantities :
          RepairDevices(i, name, q)
    \/ \E i \in 1..Len(players), name \in RepairNames, q \in RepairQuantities :
          RejectRepairsCall(i, name, q)

RepairSpec == RepairInit /\ [][RepairNext]_vars

\* C13: repair_devices and reject_repairs succeed only for
\* 1 <= quantity <= pending_repairs[product]; on success the pending count
\* falls by quantity (the entry is removed at 0), reject_repairs adds quantity
\* to rejected_repairs_this_month and repair_devices leaves it alone; on
\* failure money, pending_repairs and rejected_repairs_this_month are as
\* before; no pending count is ever below 1.
C13_RepairOutcome ==
    [][probe'.kind = "call" =>
        LET p == players[probe'.player]
            p1 == players'[probe'.player]
            name == probe'.blueprint_name
            q == probe'.quantity
            pending == DictGet(p.pending_repairs, name, 0)
        IN /\ probe'.ok =>
                /\ 1 <= q /\ q <= pending
                /\ DictGet(p1.pending_repairs, name, 0) = pending - q
                /\ DictHas(p1.pending_repairs, name) <=> pending - q > 0
                /\ \A other \in DictKeys(p.pending_repairs) \ {name} :
                      DictGet(p1.pending_repairs, other, 0)
                         = DictGet(p.pending_repairs, other, 0)
                /\ IF probe'.operation = "reject_repairs"
                   THEN /\ p1.rejected_repairs_this_month
                             = p.rejected_repairs_this_month + q
                        /\ p1.money = p.money
                   ELSE /\ p1.rejected_repairs_this_month
                             = p.rejected_repairs_this_month
                        /\ p1.money <= p.money /\ p1.money >= 0
           /\ ~probe'.ok =>
                /\ p1.money = p.money
                /\ p1.pending_repairs = p.pending_repairs
                /\ p1.rejected_repairs_this_month = p.rejected_repairs_this_month
           /\ \A k \in 1..Len(p1.pending_repairs) : p1.pending_repairs[k][2] >= 1]_vars

\* the last pending units were repaired and paid for, after a rejection
C13_Witness ==
    /\ probe.kind = "call"
    /\ probe.operation = "repair_devices"
    /\ probe.ok
    /\ ~DictHas(players[1].pending_repairs, probe.blueprint_name)
    /\ players[1].rejected_repairs_this_month > 0
    /\ players[1].money < STARTING_MONEY

-----------------------------------------------------------------------------
(* Retention: the rounds of the market scenario at the distances the       *)
(* retention thresholds tell apart.                                        *)

RetentionNext ==
    \/ InitializeMarket
    \/ \E d \in RetentionSteps, i \in 1..Len(players), q \in StockLevels :
         \E k \in 1..Len(players[i].blueprints) : RestockedRound(d, i, k, q)
    \/ \E d \in RetentionSteps : PlainRound(d)

RetentionSpec == MarketInit /\ [][RetentionNext]_vars

\* C14: a cohort lowers its manufacturer's reputation only when it gives up
\* a phone held for fewer than 12 months, and not when the phone's lifecycle
\* had simply run out; it raises it only for a phone held at least 24 months;
\* 12 to 23 months change nothing. The code penalises every expiry at up to
\* 12 months, the twelfth included.
C14_RetentionThresholds ==
    \A e \in obs.retention_events :
        /\ e.change < 0 => (e.months_owned < 12 /\ ~e.expired)
        /\ e.change > 0 => e.months_owned >= 24

-----------------------------------------------------------------------------
(* Properties of the purchases of one pass (MarketSpec) *)

\* the groups the pass appended
Appended == Len(market'.customer_groups) - Len(market.customer_groups)

\* C15: when the winner's remaining inventory covers the whole of a cohort
\* that is in the market, the cohort is updated in place: its count, tier
\* and type stay, its ownership becomes the winner, the product and the
\* current month (for purchase_month and last_camera_check_month), and no
\* group is added for it (the pass appends one group per purchase that the
\* inventory did not cover).
C15_InPlacePurchase ==
    [][PassStep =>
        /\ \A e \in obs'.purchases :
              e.available_qty >= e.count =>
                 LET old == market.customer_groups[e.group_idx]
                     new == market'.customer_groups[e.group_idx]
                 IN /\ new.count = old.count
                    /\ new.tier = old.tier
                    /\ new.customer_type = old.customer_type
                    /\ new.owned_phone_company = e.company
                    /\ new.owned_phone_blueprint = e.blueprint
                    /\ new.purchase_month = market'.current_month
                    /\ new.last_camera_check_month = market'.current_month
        /\ Appended = Cardinality({e \in obs'.purchases :
                                      e.available_qty < e.count})]_vars

\* the second pass: a cohort that owned a phone replaced it in place
C15_Witness ==
    /\ obs.rounds >= 2
    /\ obs.replaced # {}
    /\ \E e \in obs.purchases :
          /\ e.available_qty >= e.count
          /\ e.group_idx <= Len(CUSTOMER_TIER_DISTRIBUTION) * Len(CustomerTypeNames)
          /\ market.customer_groups[e.group_idx].purchase_month
               = market.current_month

\* C16: when the winner's remaining inventory q is positive but smaller than
\* the count of a cohort that is in the market, the pass appends one group of
\* count q that owns the winner's product since the current month, and the
\* original group, shrunk by q, is left without an ownership record.
C16_SplitRemainder ==
    [][PassStep =>
        \A e \in obs'.purchases :
            (0 < e.available_qty /\ e.available_qty < e.count) =>
               LET old == market.customer_groups[e.group_idx]
                   new == market'.customer_groups[e.group_idx]
                   added == {k \in Len(market.customer_groups) + 1
                                     .. Len(market'.customer_groups) :
                               /\ market'.customer_groups[k].tier = old.tier
                               /\ market'.customer_groups[k].customer_type
                                    = old.customer_type}
               IN /\ Cardinality(added) = 1
                  /\ \A k \in added :
                        market'.customer_groups[k] =
                            EveryoneBought(
                                CustomerGroup(old.tier, old.customer_type,
                                              e.available_qty),
                                e.company, e.blueprint, market'.current_month)
                  /\ new.count = old.count - e.available_qty
                  /\ new.owned_phone_company = None
                  /\ new.owned_phone_blueprint = None]_vars

-----------------------------------------------------------------------------
(* MatchSpec: two stocked manufacturers of the same tier, with any of the
   reputations MatchReputations, and the passes of the market over their
   inventories *)

Stocked(name, d, brand_reputation, q) ==
    [Maker(name, d) EXCEPT !.brand_reputation = brand_reputation,
                           !.manufactured_phones = <<<<d.name, q>>>>]

MatchInit ==
    /\ \E r1 \in MatchReputations, r2 \in MatchReputations,
          q1 \in StockLevels, q2 \in StockLevels :
         players = <<Stocked("P1", CamLo, r1, q1), Stocked("P2", CamHi, r2, q2)>>
    /\ market = CustomerMarket
    /\ game = Game
    /\ obs = Obs0
    /\ probe = NoProbe

MatchNext ==
    \/ InitializeMarket
    \/ \E d \in HoldSteps : PlainRound(d)

MatchSpec == MatchInit /\ [][MatchNext]_vars

\* the candidates of a group: the entries of the pass's inventory, in its
\* order, whose product is in the group's tier
Candidates(inventory, ps, tier, global_tech_level) ==
    SelectSeq(inventory,
              LAMBDA c : get_tier_name(
                             FindBlueprint(ps[PlayerIdx(ps, c[1][1])], c[1][2]),
                             global_tech_level) = tier)

\* evaluate_phone * (1 + brand_reputation / 100 * 0.2), times 250 * 500
ScoreOf(ps, customer_type, key) ==
    LET player == ps[PlayerIdx(ps, key[1])]
    IN evaluate_phone250(customer_type, FindBlueprint(player, key[2]))
          * (500 + player.brand_reputation)

\* C17: every purchase of a pass is of the candidate of the group's tier with
\* the highest score evaluate_phone * (1 + brand_reputation/100 * 0.2), and
\* of the first such candidate in evaluation order (players in list order,
\* then inventory entries in insertion order) when several tie; so the state
\* before the pass determines the allocation.
C17_FirstBestWins ==
    [][PassStep =>
        \A e \in obs'.purchases :
            LET group == market.customer_groups[e.group_idx]
                cands == Candidates(obs'.inventory_at_start, players,
                                    group.tier, game.global_tech_level)
                sc(k) == ScoreOf(players, group.customer_type, cands[k][1])
            IN \E w \in 1..Len(cands) :
                  /\ cands[w][1] = <<e.company, e.blueprint>>
                  /\ \A j \in 1..Len(cands) : sc(j) <= sc(w)
                  /\ \A j \in 1..(w - 1) : sc(j) < sc(w)]_vars

\* the first pass, both manufacturers stocked and of equal reputation: the
\* All-Rounder cohort, for which the two products tie, bought the first one
C17_Witness ==
    /\ obs.rounds = 1
    /\ players[1].brand_reputation = players[2].brand_reputation
    /\ Len(obs.inventory_at_start) = 2
    /\ evaluate_phone250("All-Rounder", players[1].blueprints[1])
          = evaluate_phone250("All-Rounder", players[2].blueprints[1])
    /\ \E e \in obs.purchases :
          /\ market.customer_groups[e.group_idx].customer_type = "All-Rounder"
          /\ e.company = players[1].name

-----------------------------------------------------------------------------
(* Properties of the camera check (MarketSpec) *)

\* the blueprint a group owns
OwnedBlueprint(ps, group) ==
    FindBlueprint(ps[PlayerIdx(ps, group.owned_phone_company)],
                  group.owned_phone_blueprint)

\* a Camera Enthusiast group that owns a product whose lifecycle has not
\* expired in month m and whose last check is CAMERA_CHECK_INTERVAL months old
CheckDue(ps, group, m) ==
    /\ group.customer_type = "Camera Enthusiast"
    /\ group.owned_phone_company # None
    /\ m - group.purchase_month
         < calculate_phone_lifecycle(OwnedBlueprint(ps, group), group.customer_type)
    /\ m - (IF group.last_camera_check_month = NoMonth
            THEN group.purchase_month ELSE group.last_camera_check_month)
         >= CAMERA_CHECK_INTERVAL

\* some product of the pass's inventory, of the group's tier, has a strictly
\* higher camera tier than the product the group owns
BetterCamera(inventory, ps, group, global_tech_level) ==
    LET cands == Candidates(inventory, ps, group.tier, global_tech_level)
    IN \E k \in 1..Len(cands) :
          FindBlueprint(ps[PlayerIdx(ps, cands[k][1][1])], cands[k][1][2]).tier["camera"]
             > OwnedBlueprint(ps, group).tier["camera"]

\* C18: in every pass, a Camera Enthusiast cohort that owns a non-expired
\* product and whose last check (or purchase) is at least 3 months old has
\* last_camera_check_month set to the current month, whether or not it
\* switches; and a cohort that owns a non-expired product buys in the pass
\* only if it is such a cohort and some available product of its tier has a
\* strictly higher camera tier than the one it owns.
C18_CameraCheck ==
    [][PassStep =>
        \A k \in 1..Len(market.customer_groups) :
            LET group == market.customer_groups[k]
                m == market'.current_month
            IN /\ CheckDue(players, group, m) =>
                     market'.customer_groups[k].last_camera_check_month = m
               /\ ( /\ group.owned_phone_company # None
                    /\ m - group.purchase_month
                         < calculate_phone_lifecycle(OwnedBlueprint(players, group),
                                                     group.customer_type)
                    /\ \E e \in obs'.purchases : e.group_idx = k )
                  => ( /\ CheckDue(players, group, m)
                       /\ BetterCamera(obs'.inventory_at_start, players, group,
                                       game.global_tech_level) )]_vars

-----------------------------------------------------------------------------
(* SignalSpec: one manufacturer with one or two products of any mix of
   grades, with or without a fingerprint sensor, and the monthly
   recomputation of its reputation *)

\* a tier-1 product: every mandatory component of grade q but the camera of
\* grade cq, and a fingerprint sensor of tier ft and grade fq
Graded(name, q, cq, ft, fq) ==
    PhoneBlueprint(name, UniformParts(1, ft),
                   [UniformQuality(q) EXCEPT !["camera"] = cq,
                                             !["fingerprint"] = fq],
                   100)

SensorTiers == {0, 1}

SignalInit ==
    /\ \E q \in Quality, cq \in Quality, ft \in SensorTiers, fq \in Quality :
         \E more \in {<<>>} \cup {<<Graded("B", q2, q2, 0, q2)>> : q2 \in Quality} :
            players = <<[Player("P1") EXCEPT
                           !.blueprints = <<Graded("A", q, cq, ft, fq)>> \o more]>>
    /\ market = CustomerMarket
    /\ game = Game
    /\ obs = Obs0
    /\ probe = NoProbe

SignalNext == \E i \in 1..Len(players) : CalculateBrandReputationChanges(i)

SignalSpec == SignalInit /\ [][SignalNext]_vars

\* the products with at least one mandatory component of grade q
MandatoryCount(player, q) ==
    Cardinality({b \in 1..Len(player.blueprints) :
        \E k \in 1..Len(CORE_PARTS) : player.blueprints[b].quality[CORE_PARTS[k]] = q})

\* C19: the component-quality signal of a recomputation counts the 7
\* mandatory components only: -2 for each product with a Low mandatory
\* component, +2 for each product with a High mandatory component (both for
\* a mixed product); the grade of the fingerprint sensor changes nothing.
C19_MandatoryGradesOnly ==
    [][\A i \in 1..Len(players) :
         CalculateBrandReputationChanges(i) =>
            LET expected == players[i].brand_reputation
                              - CheapCasingCount(players[i], game.global_tech_level)
                              - 2 * MandatoryCount(players[i], "Low")
                              + 2 * MandatoryCount(players[i], "High")
                              - 2 * SwingCount(players[i])
                              - RejectionPenalty(players[i])
            IN players'[i].brand_reputation =
                  (IF expected < 0 THEN 0
                   ELSE IF expected > 100 THEN 100 ELSE expected)]_vars

-----------------------------------------------------------------------------
(* Properties of the replacement time (LifecycleSpec) *)

\* the replacement time counted over the 7 mandatory components only
MandatoryLifecycle(bp, customer_type) ==
    LET base == IF customer_type = "Gamer" THEN GAMER_REPLACEMENT_TIME
                ELSE BASE_REPLACEMENT_TIME
        tiers == SumSeq([k \in 1..Len(CORE_PARTS) |->
                     IF bp.tier[CORE_PARTS[k]] >= 4 THEN 1
                     ELSE IF bp.tier[CORE_PARTS[k]] <= 2 THEN -1 ELSE 0])
        grades == SumSeq([k \in 1..Len(CORE_PARTS) |->
                     IF bp.quality[CORE_PARTS[k]] = "High" THEN 1
                     ELSE IF bp.quality[CORE_PARTS[k]] = "Low" THEN -1 ELSE 0])
        battery == IF bp.quality["battery"] = "High" THEN 1 ELSE 0
        total == base + tiers + grades + battery
    IN IF total < 6 THEN 6 ELSE total

\* C20: the replacement time is max(6, base + the tier terms of the 7
\* mandatory components + their grade terms + 1 for a High battery), with
\* base 16 for a Gamer and 20 for every other type; the tier and the grade of
\* the fingerprint sensor do not enter.
C20_MandatoryPartsOnly ==
    probe # NoProbe =>
        probe.lifecycle = MandatoryLifecycle(probe.bp, probe.customer_type)

-----------------------------------------------------------------------------
(* TechSpec: games that reached a global tech level with idle players, a
   month or two before the next advancement, followed over a few months in
   which the players create blueprints with the available tier range *)

\* the game after n idle months: advance_game_month n times from the start
IdleGame(n) ==
    [global_month |-> n + 1,
     global_tech_level |-> (n \div 36) + 1,
     months_until_tech_advance |-> 36 - (n % 36)]

\* a player of that game: nothing but its month and, through
\* advance_global_tech, its unlocked tiers have changed
IdlePlayer(name, n) ==
    [Player(name) EXCEPT
       !.current_month = n + 1,
       !.unlocked_tiers = [part \in DOMAIN @ |-> (n \div 36) + 5]]

TechInit ==
    /\ \E level \in 1..MaxTechLevel, left \in 1..2 :
         LET n == 36 * level - left
         IN /\ game = IdleGame(n)
            /\ players = [i \in 1..Len(PlayerNames) |-> IdlePlayer(PlayerNames[i], n)]
            /\ market = [initialize_market(CustomerMarket)
                           EXCEPT !.current_month = n + 1]
    /\ obs = Obs0
    /\ probe = NoProbe

\* menu_create_phone with every mandatory part at tier t and a fingerprint
\* sensor of tier fp
CreateUniform(i, name, t, fp) ==
    CreateBlueprint(i, [name |-> name, parts |-> UniformParts(t, fp),
                        quality |-> UniformQuality("Normal"), sell_price |-> 100])

TechMonth ==
    /\ obs.calls < MaxTechMonths
    /\ AdvanceMonth([obs EXCEPT !.calls = @ + 1])

\* tiers asked for: one below the range, its upper end, one above
TierOffsets == {-1, 4, 5}

\* what menu_rnd's "Start new R&D project" makes of the player's choice of a
\* part: start_rnd for the next tier of the part with the available tier
\* range, and no call when the part is at MAX_TIER
menu_rnd(player, part_type, g) ==
    LET range == get_available_tier_range(g)
        target_tier == player.unlocked_tiers[part_type] + 1
    IN IF target_tier <= MAX_TIER
       THEN start_rnd(player, part_type, target_tier, range[1], range[2])
       ELSE [ok |-> FALSE, player |-> player]

\* menu_rnd, choice 1
StartRnd(i, part_type) ==
    /\ i \in 1..Len(players)
    /\ players' = [players EXCEPT ![i] = menu_rnd(@, part_type, game).player]
    /\ UNCHANGED <<market, game, obs, probe>>

TechNext ==
    \/ \E i \in 1..Len(players), off \in TierOffsets, fp \in BOOLEAN :
         LET t == get_available_tier_range(game)[1] + off
         IN CreateUniform(i, "Top", t, IF fp THEN t ELSE 0)
    \/ \E i \in 1..Len(players), part \in Range(ALL_PARTS) : StartRnd(i, part)
    \/ TechMonth

TechSpec == TechInit /\ [][TechNext]_vars

\* C21: every blueprint has each mandatory tier in 1..10 and its fingerprint
\* tier in 0..10, and no player's unlocked tier of any part exceeds MAX_TIER,
\* after any month advances, tech advancements and create_blueprint calls
\* made with the game's available tier range.
C21_TiersBounded ==
    \A i \in 1..Len(players) :
       /\ \A part \in Range(ALL_PARTS) : players[i].unlocked_tiers[part] <= MAX_TIER
       /\ \A b \in 1..Len(players[i].blueprints) :
             /\ \A k \in 1..Len(CORE_PARTS) :
                   players[i].blueprints[b].tier[CORE_PARTS[k]] \in 1..MAX_TIER
             /\ players[i].blueprints[b].tier["fingerprint"] \in 0..MAX_TIER

-----------------------------------------------------------------------------
(* PriceSpec: one player whose prices are tracked, month after month (the
   calls of test_price_tracking, and of the menus when a price is set) *)

TrackedNames == {"TestPhone", "Budget Phone"}
TrackedPrices == {1000, 1300}

\* probe: every (month, price) pair tracked so far, per product, in call order
PriceInit ==
    /\ players = <<Player("Test Player")>>
    /\ market = CustomerMarket
    /\ game = Game
    /\ obs = Obs0
    /\ probe = [kind |-> "prices", tracked |-> <<>>]

TrackBlueprintPrice(i, name, price) ==
    /\ obs.calls < MaxCalls
    /\ players' = [players EXCEPT ![i] = track_blueprint_price(@, name, price)]
    /\ probe' = [probe EXCEPT !.tracked =
                    DictPut(@, name, Append(DictGet(@, name, <<>>),
                                            <<players[i].current_month, price>>))]
    /\ obs' = [obs EXCEPT !.calls = @ + 1]
    /\ UNCHANGED <<market, game>>

\* Player.advance_month between two calls
NextPriceMonth(i) ==
    /\ players[i].current_month < MaxMonth
    /\ players' = [players EXCEPT ![i] = advance_month(@)]
    /\ UNCHANGED <<market, game, obs, probe>>

PriceNext ==
    \/ \E i \in 1..Len(players), name \in TrackedNames, price \in TrackedPrices :
         TrackBlueprintPrice(i, name, price)
    \/ \E i \in 1..Len(players) : NextPriceMonth(i)

PriceSpec == PriceInit /\ [][PriceNext]_vars

\* the last n entries of a sequence (all of it when it is shorter)
LastEntries(seq, n) ==
    IF Len(seq) > n THEN SubSeq(seq, Len(seq) - n + 1, Len(seq)) ELSE seq

\* C22: after any sequence of track_blueprint_price calls each product's
\* price history has at most 3 entries, and they are the last (up to 3)
\* tracked (month, price) pairs of that product, in call order.
C22_LastThreePrices ==
    probe.kind = "prices" =>
        \A i \in 1..Len(players) :
           /\ DictKeys(players[i].price_history) = DictKeys(probe.tracked)
           /\ \A name \in DictKeys(probe.tracked) :
                 LET history == DictGet(players[i].price_history, name, <<>>)
                 IN /\ Len(history) <= 3
                    /\ history = LastEntries(DictGet(probe.tracked, name, <<>>), 3)

\* a fourth price of one product pushed its first price out
C22_Witness ==
    /\ probe.kind = "prices"
    /\ \E name \in DictKeys(probe.tracked) :
          /\ Len(DictGet(probe.tracked, name, <<>>)) > 3
          /\ DictGet(probe.tracked, name, <<>>)[1]
                # DictGet(players[1].price_history, name, <<>>)[1]

-----------------------------------------------------------------------------
(* LookupSpec: two stocked manufacturers whose inventories and sales records
   may hold a name that has no blueprint, and who may delete a blueprint
   that customers still own; passes of the market and monthly repairs *)

LookupInit ==
    /\ \E ghost \in GhostEntries, q1 \in StockLevels, q2 \in StockLevels :
         players =
           <<[Stocked("P1", CamLo, 50, q1) EXCEPT
                !.manufactured_phones = ghost \o @, !.sold_devices = ghost],
             [Stocked("P2", CamHi, 50, q2) EXCEPT
                !.manufactured_phones = @ \o ghost, !.sold_devices = ghost]>>
    /\ market = CustomerMarket
    /\ game = Game
    /\ obs = Obs0
    /\ probe = NoProbe

\* menu_delete_blueprint: delete_blueprint
DeleteBlueprint(i, name) ==
    /\ players' = [players EXCEPT ![i] = delete_blueprint(@, name).player]
    /\ UNCHANGED <<market, game, obs, probe>>

\* the repairs of a month are generated after its pass, for one of the players
RepairsAfterPass(i, lucky) ==
    /\ obs.calls < obs.rounds
    /\ GenerateMonthlyRepairs(i, lucky)

LookupNext ==
    \/ InitializeMarket
    \/ \E d \in HoldSteps : PlainRound(d)
    \/ \E i \in 1..Len(players) :
         \E k \in 1..Len(players[i].blueprints) :
            DeleteBlueprint(i, players[i].blueprints[k].name)
    \/ \E i \in 1..Len(players) :
         \E lucky \in SUBSET FractionalRepairs(players[i]) :
            RepairsAfterPass(i, lucky)

LookupSpec == LookupInit /\ [][LookupNext]_vars

\* a dict without the entries whose name has no blueprint of the player
Known(player, dict) == SelectSeq(dict, LAMBDA e : HasBlueprint(player, e[1]))
Unknown(player, dict) == SelectSeq(dict, LAMBDA e : ~HasBlueprint(player, e[1]))

\* a group whose owned product is not in its company's catalog
Orphan(ps, group) ==
    /\ group.owned_phone_company # None
    /\ ~ ( /\ HasPlayer(ps, group.owned_phone_company)
           /\ HasBlueprint(ps[PlayerIdx(ps, group.owned_phone_company)],
                           group.owned_phone_blueprint) )

\* C23: a failed lookup does not halt a monthly pass. An inventory entry
\* without a blueprint and a cohort whose owned product is not found are left
\* as they are, a sold_devices entry without a blueprint generates no
\* repairs, and everything else comes out exactly as from the pass (or the
\* repair generation) over the state without those entries.
C23_LookupsSkipped ==
    [][ /\ PassStep =>
             \E r \in {simulate_purchases(
                         [i \in 1..Len(players) |->
                            [players[i] EXCEPT !.manufactured_phones =
                                Known(players[i], @)]],
                         [market EXCEPT
                            !.current_month = market'.current_month,
                            !.customer_groups =
                                SelectSeq(@, LAMBDA g : ~Orphan(players, g))],
                         game.global_tech_level)} :
                /\ \A i \in 1..Len(players) :
                      /\ [players'[i] EXCEPT !.manufactured_phones =
                             Known(players[i], @)] = r.players[i]
                      /\ Unknown(players[i], players'[i].manufactured_phones)
                            = Unknown(players[i], players[i].manufactured_phones)
                /\ SelectSeq(market'.customer_groups,
                             LAMBDA g : ~Orphan(players, g))
                      = r.market.customer_groups
                /\ \A k \in 1..Len(market.customer_groups) :
                      Orphan(players, market.customer_groups[k]) =>
                         market'.customer_groups[k] = market.customer_groups[k]
                /\ market'.sales_history = r.market.sales_history
        /\ \A i \in 1..Len(players) :
              \A lucky \in SUBSET FractionalRepairs(players[i]) :
                 GenerateMonthlyRepairs(i, lucky) =>
                    /\ players'[i].pending_repairs =
                          generate_monthly_repairs(
                              [players[i] EXCEPT !.sold_devices =
                                  Known(players[i], @)], lucky).player.pending_repairs
                    /\ \A name \in DictKeys(Unknown(players[i],
                                                    players[i].sold_devices)) :
                          DictGet(players'[i].pending_repairs, name, 0)
                             = DictGet(players[i].pending_repairs, name, 0) ]_vars

\* the second pass sold phones while a cohort owned a deleted product and an
\* inventory held a name without blueprint, and repairs were generated for a
\* player whose sales records hold such a name
C23_Witness ==
    /\ obs.rounds = 2
    /\ obs.purchases # {}
    /\ \E k \in 1..Len(market.customer_groups) :
          /\ Orphan(players, market.customer_groups[k])
          /\ market.customer_groups[k].purchase_month < market.current_month
    /\ \E i \in 1..Len(players) :
          /\ Unknown(players[i], players[i].manufactured_phones) # <<>>
          /\ Unknown(players[i], players[i].sold_devices) # <<>>
          /\ players[i].pending_repairs # <<>>

-----------------------------------------------------------------------------
(* OpsSpec: one player in one of a few situations of a game, and the calls
   of manufacture_phone, start_rnd, create_blueprint and delete_blueprint
   with valid and invalid arguments *)

\* the player with the blueprint CamLo, in month 1
Designed ==
    create_blueprint(Player("P1"), CamLo.name, CamLo.parts, CamLo.sell_price,
                     CamLo.quality, 1, MAX_TIER).player

\* the names of the further blueprints of a full catalog
FillerNames == <<"B2", "B3", "B4", "B5", "B6", "B7", "B8", "B9", "B10">>

RECURSIVE Filled(_, _)
Filled(player, k) ==
    IF k > Len(FillerNames) THEN player
    ELSE Filled(create_blueprint(player, FillerNames[k], CamLo.parts,
                                 CamLo.sell_price, CamLo.quality, 1,
                                 MAX_TIER).player, k + 1)

\* the situations: a fresh catalog; 100 units in inventory in month 2; 950
\* units ordered in month 2 and still in the queue; units awaiting repair;
\* a full catalog; hardly any money left
Situations ==
    LET stocked == advance_month(complete_manufacturing(
                       manufacture_phone(Designed, "CamLo", 100).player))
    IN { Designed,
         stocked,
         manufacture_phone(advance_month(Designed), "CamLo", 950).player,
         [advance_month(Designed) EXCEPT !.pending_repairs = <<<<"CamLo", 10>>>>],
         Filled(Designed, 1),
         [Designed EXCEPT !.money = 50] }

OpsInit ==
    /\ \E player \in Situations : players = <<player>>
    /\ market = CustomerMarket
    /\ game = Game
    /\ obs = Obs0
    /\ probe = NoProbe

\* one call: the player afterwards and, in probe, the call and its result
OpCall(i, operation, args, r) ==
    /\ obs.orders < MaxOrders
    /\ players' = [players EXCEPT ![i] = r.player]
    /\ probe' = [kind |-> "op", operation |-> operation, player |-> i,
                 args |-> args, ok |-> r.ok]
    /\ obs' = [obs EXCEPT !.orders = @ + 1]
    /\ UNCHANGED <<market, game>>

OpNames == {"CamLo", "Phone X"}
OpQuantities == {0, 100, 1000}
OpParts == {"soc", "gps"}
OpTargets == {1, 5, 6, 7}
OpTiers == {<<0, 0>>, <<1, 0>>, <<1, 1>>, <<1, 6>>, <<1, -1>>, <<6, 0>>}

\* the tier range of the game, and the default range of the two operations
OpRanges == {get_available_tier_range(Game), <<1, MAX_TIER>>}

OpsNext ==
    \/ \E i \in 1..Len(players), name \in OpNames, q \in OpQuantities :
         OpCall(i, "manufacture_phone", [blueprint_name |-> name, quantity |-> q],
                manufacture_phone(players[i], name, q))
    \/ \E i \in 1..Len(players), part \in OpParts, t \in OpTargets, range \in OpRanges :
         OpCall(i, "start_rnd",
                [part_type |-> part, target_tier |-> t, range |-> range],
                start_rnd(players[i], part, t, range[1], range[2]))
    \/ \E i \in 1..Len(players), name \in OpNames, t \in OpTiers, range \in OpRanges :
         OpCall(i, "create_blueprint",
                [name |-> name, parts |-> UniformParts(t[1], t[2]), range |-> range],
                create_blueprint(players[i], name, UniformParts(t[1], t[2]), 100,
                                 UniformQuality("Normal"), range[1], range[2]))
    \/ \E i \in 1..Len(players), name \in OpNames :
         OpCall(i, "delete_blueprint", [blueprint_name |-> name],
                delete_blueprint(players[i], name))

OpsSpec == OpsInit /\ [][OpsNext]_vars

\* the validation failures of a call with arguments a on the player
InvalidCall(player, operation, a) ==
    IF operation = "manufacture_phone"
    THEN \/ ~HasBlueprint(player, a.blueprint_name)
         \/ a.quantity < 1
         \/ a.quantity > MANUFACTURING_LIMIT_PER_MONTH
                            - player.manufacturing_used_this_month
         \/ player.money < a.quantity
               * get_production_cost(FindBlueprint(player, a.blueprint_name))
    ELSE IF operation = "start_rnd"
    THEN \/ a.part_type \notin Range(ALL_PARTS)
         \/ a.target_tier \notin (a.range[1]..a.range[2]) \cap (2..MAX_TIER)
         \/ a.target_tier # player.unlocked_tiers[a.part_type] + 1
         \/ \E k \in 1..Len(player.ongoing_rnd) :
               /\ player.ongoing_rnd[k].part_type = a.part_type
               /\ player.ongoing_rnd[k].target_tier = a.target_tier
         \/ player.money < RND_CONFIG[a.target_tier][1]
    ELSE IF operation = "create_blueprint"
    THEN \/ Len(player.blueprints) >= MAX_BLUEPRINTS
         \/ HasBlueprint(player, a.name)
         \/ \E k \in 1..Len(CORE_PARTS) :
               \/ a.parts[CORE_PARTS[k]] \notin a.range[1]..a.range[2]
               \/ a.parts[CORE_PARTS[k]] > player.unlocked_tiers[CORE_PARTS[k]]
         \/ a.parts["fingerprint"] \notin {0} \cup (a.range[1]..a.range[2])
         \/ a.parts["fingerprint"] > player.unlocked_tiers["fingerprint"]
    ELSE \/ ~HasBlueprint(player, a.blueprint_name)
         \/ DictGet(player.manufactured_phones, a.blueprint_name, 0) > 0
         \/ DictGet(player.pending_repairs, a.blueprint_name, 0) > 0
         \/ \E k \in 1..Len(player.manufacturing_queue) :
               player.manufacturing_queue[k][1] = a.blueprint_name

\* C24: manufacture_phone, start_rnd, create_blueprint and delete_blueprint
\* return False for every validation failure (unknown blueprint or part,
\* quantity < 1, capacity exceeded, insufficient funds, tier out of range or
\* locked, duplicate name, blueprint limit, blueprint still in use), and a
\* call that returns False leaves the player's money, blueprints, inventory,
\* manufacturing queue, capacity counter, R&D list and price history as they
\* were.
C24_FailuresReported ==
    [][obs'.orders = obs.orders + 1 =>
        LET p == players[probe'.player]
            p1 == players'[probe'.player]
        IN /\ InvalidCall(p, probe'.operation, probe'.args) => ~probe'.ok
           /\ ~probe'.ok =>
                 /\ p1.money = p.money
                 /\ p1.blueprints = p.blueprints
                 /\ p1.manufactured_phones = p.manufactured_phones
                 /\ p1.manufacturing_queue = p.manufacturing_queue
                 /\ p1.manufacturing_used_this_month = p.manufacturing_used_this_month
                 /\ p1.ongoing_rnd = p.ongoing_rnd
                 /\ p1.price_history = p.price_history]_vars

-----------------------------------------------------------------------------
(* Saving and loading: to_dict and from_dict *)

\* the dictionaries to_dict builds are sequences of <<key, value>> pairs in
\* the order the code writes the keys; from_dict reads them by key

\* PhoneBlueprint.to_dict: asdict(self); the per-part fields soc_tier ..
\* fingerprint_quality are the two functions tier and quality of the record
PhoneBlueprint_to_dict(bp) ==
    << <<"name", bp.name>>, <<"tier", bp.tier>>,
       <<"sell_price", bp.sell_price>>, <<"quality", bp.quality>> >>

\* PhoneBlueprint.from_dict: PhoneBlueprint(**data); name, the tiers and
\* sell_price are required, the qualities default to "Normal"
PhoneBlueprint_from_dict(data) ==
    PhoneBlueprint(DictGet(data, "name", None),
                   DictGet(data, "tier", [p \in Range(ALL_PARTS) |-> 0]),
                   DictGet(data, "quality", [p \in Range(ALL_PARTS) |-> "Normal"]),
                   DictGet(data, "sell_price", 0))

\* RnDProject.to_dict: asdict(self)
RnDProject_to_dict(proj) ==
    << <<"part_type", proj.part_type>>, <<"target_tier", proj.target_tier>>,
       <<"months_remaining", proj.months_remaining>>, <<"cost", proj.cost>> >>

\* RnDProject.from_dict: RnDProject(**data)
RnDProject_from_dict(data) ==
    [part_type |-> DictGet(data, "part_type", None),
     target_tier |-> DictGet(data, "target_tier", 0),
     months_remaining |-> DictGet(data, "months_remaining", 0),
     cost |-> DictGet(data, "cost", 0)]

\* Player.to_dict
Player_to_dict(player) ==
    << <<"name", player.name>>,
       <<"money", player.money>>,
       <<"current_month", player.current_month>>,
       <<"unlocked_tiers", player.unlocked_tiers>>,
       <<"ongoing_rnd", [k \in 1..Len(player.ongoing_rnd) |->
                            RnDProject_to_dict(player.ongoing_rnd[k])]>>,
       <<"blueprints", [k \in 1..Len(player.blueprints) |->
                            PhoneBlueprint_to_dict(player.blueprints[k])]>>,
       <<"manufactured_phones", player.manufactured_phones>>,
       <<"manufacturing_queue", player.manufacturing_queue>>,
       <<"manufacturing_used_this_month", player.manufacturing_used_this_month>>,
       <<"sold_devices", player.sold_devices>>,
       <<"pending_repairs", player.pending_repairs>>,
       <<"brand_reputation", player.brand_reputation>>,
       <<"price_history", player.price_history>>,
       <<"rejected_repairs_this_month", player.rejected_repairs_this_month>> >>

\* Player.from_dict reading a save that has none of the keys the code reads
\* with data.get: every such field takes its default
Player_from_dict_old_save(data) ==
    LET rnd == DictGet(data, "ongoing_rnd", <<>>)
        bps == DictGet(data, "blueprints", <<>>)
    IN [Player(DictGet(data, "name", None)) EXCEPT
          !.money = DictGet(data, "money", 0),
          !.current_month = DictGet(data, "current_month", 0),
          !.unlocked_tiers = DictGet(data, "unlocked_tiers", <<>>),
          !.ongoing_rnd = [k \in 1..Len(rnd) |-> RnDProject_from_dict(rnd[k])],
          !.blueprints = [k \in 1..Len(bps) |-> PhoneBlueprint_from_dict(bps[k])],
          !.manufactured_phones = DictGet(data, "manufactured_phones", <<>>)]

\* Player.from_dict: Player(data['name']), then every field is assigned; the
\* fields added by later versions are read with data.get and a default
Player_from_dict(data) ==
    LET rnd == DictGet(data, "ongoing_rnd", <<>>)
        bps == DictGet(data, "blueprints", <<>>)
    IN [Player(DictGet(data, "name", None)) EXCEPT
          !.money = DictGet(data, "money", 0),
          !.current_month = DictGet(data, "current_month", 0),
          !.unlocked_tiers = DictGet(data, "unlocked_tiers", <<>>),
          !.ongoing_rnd = [k \in 1..Len(rnd) |-> RnDProject_from_dict(rnd[k])],
          !.blueprints = [k \in 1..Len(bps) |-> PhoneBlueprint_from_dict(bps[k])],
          !.manufactured_phones = DictGet(data, "manufactured_phones", <<>>),
          !.manufacturing_queue = DictGet(data, "manufacturing_queue", <<>>),
          !.manufacturing_used_this_month =
              DictGet(data, "manufacturing_used_this_month", 0),
          !.sold_devices = DictGet(data, "sold_devices", <<>>),
          !.pending_repairs = DictGet(data, "pending_repairs", <<>>),
          !.brand_reputation = DictGet(data, "brand_reputation", 50),
          !.price_history = DictGet(data, "price_history", <<>>),
          !.rejected_repairs_this_month =
              DictGet(data, "rejected_repairs_this_month", 0)]

\* CustomerGroup.to_dict: asdict(self)
CustomerGroup_to_dict(g) ==
    << <<"tier", g.tier>>, <<"customer_type", g.customer_type>>,
       <<"count", g.count>>,
       <<"owned_phone_company", g.owned_phone_company>>,
       <<"owned_phone_blueprint", g.owned_phone_blueprint>>,
       <<"purchase_month", g.purchase_month>>,
       <<"last_camera_check_month", g.last_camera_check_month>> >>

\* CustomerGroup.from_dict: CustomerGroup(**data); the ownership fields
\* default to None
CustomerGroup_from_dict(data) ==
    [CustomerGroup(DictGet(data, "tier", None),
                   DictGet(data, "customer_type", None),
                   DictGet(data, "count", 0)) EXCEPT
       !.owned_phone_company = DictGet(data, "owned_phone_company", None),
       !.owned_phone_blueprint = DictGet(data, "owned_phone_blueprint", None),
       !.purchase_month = DictGet(data, "purchase_month", NoMonth),
       !.last_camera_check_month =
           DictGet(data, "last_camera_check_month", NoMonth)]

\* CustomerMarket.to_dict
CustomerMarket_to_dict(m) ==
    << <<"customer_groups", [k \in 1..Len(m.customer_groups) |->
                                CustomerGroup_to_dict(m.customer_groups[k])]>>,
       <<"current_month", m.current_month>>,
       <<"sales_history", m.sales_history>>,
       <<"is_initialized", m.is_initialized>> >>

\* CustomerMarket.from_dict
CustomerMarket_from_dict(data) ==
    LET gs == DictGet(data, "customer_groups", <<>>)
    IN [CustomerMarket EXCEPT
          !.customer_groups =
              [k \in 1..Len(gs) |-> CustomerGroup_from_dict(gs[k])],
          !.current_month = DictGet(data, "current_month", 0),
          !.sales_history = DictGet(data, "sales_history", <<>>),
          !.is_initialized = DictGet(data, "is_initialized", FALSE)]

\* C25: in every state of the game, loading what to_dict wrote gives back
\* each player's brand_reputation, price_history,
\* rejected_repairs_this_month, inventory, sold and pending counts, and the
\* market's current_month and its customer groups, in the same order with
\* every field equal
C25_RoundTrip ==
    /\ \A i \in 1..Len(players) :
          LET loaded == Player_from_dict(Player_to_dict(players[i]))
          IN /\ loaded.brand_reputation = players[i].brand_reputation
             /\ loaded.price_history = players[i].price_history
             /\ loaded.rejected_repairs_this_month =
                    players[i].rejected_repairs_this_month
             /\ loaded.manufactured_phones = players[i].manufactured_phones
             /\ loaded.sold_devices = players[i].sold_devices
             /\ loaded.pending_repairs = players[i].pending_repairs
    /\ LET loaded == CustomerMarket_from_dict(CustomerMarket_to_dict(market))
       IN /\ loaded.customer_groups = market.customer_groups
          /\ loaded.current_month = market.current_month

\* a game with something in every field of the claim: a player with a price
\* history, rejected repairs, stock, sold units and pending repairs, and a
\* cohort that owns a phone
C25_Witness ==
    /\ \E i \in 1..Len(players) :
          /\ players[i].price_history # <<>>
          /\ players[i].rejected_repairs_this_month > 0
          /\ players[i].manufactured_phones # <<>>
          /\ players[i].sold_devices # <<>>
          /\ players[i].pending_repairs # <<>>
          /\ Player_from_dict(Player_to_dict(players[i])) = players[i]
    /\ \E k \in 1..Len(market.customer_groups) :
          market.customer_groups[k].owned_phone_company # None
    /\ market.current_month > 1

-----------------------------------------------------------------------------
(* CasingSpec: a player of a game at tech level 1 or 2 creates blueprints
   through the menu, orders units of them or not, and has its reputation
   recomputed *)

CasingLevels == {1, 2}       \* global tech levels of the scenario
CasingNames == {"A", "B"}    \* names of the blueprints created
BodyTiers == {4, 5}          \* tier of every mandatory part but the casing
CasingTiers == {1, 2, 3}     \* tier of the casing

CasingInit ==
    /\ \E level \in CasingLevels :
         LET n == 36 * (level - 1)
         IN /\ game = IdleGame(n)
            /\ players = <<IdlePlayer("P1", n)>>
            /\ market = [initialize_market(CustomerMarket)
                           EXCEPT !.current_month = n + 1]
    /\ obs = Obs0
    /\ probe = NoProbe

\* menu_create_phone with a casing of tier c on a phone of tier t
CreateCased(i, name, t, c) ==
    CreateBlueprint(i, [name |-> name,
                        parts |-> [UniformParts(t, 0) EXCEPT !["casing"] = c],
                        quality |-> UniformQuality("Normal"),
                        sell_price |-> 2000])

CasingNext ==
    \/ \E i \in 1..Len(players), name \in CasingNames, t \in BodyTiers,
          c \in CasingTiers : CreateCased(i, name, t, c)
    \/ \E i \in 1..Len(players), name \in CasingNames, q \in OrderSizes :
          ManufacturePhone(i, name, q)
    \/ \E i \in 1..Len(players) : CalculateBrandReputationChanges(i)

CasingSpec == CasingInit /\ [][CasingNext]_vars

\* the blueprints the build-quality signal is about: High End or Flagship
\* at the given tech level, with a casing of tier 1 or 2
CheapCased(player, global_tech_level) ==
    {b \in 1..Len(player.blueprints) :
        /\ \/ get_tier_name(player.blueprints[b], global_tech_level) = "High End"
           \/ get_tier_name(player.blueprints[b], global_tech_level) = "Flagship"
        /\ player.blueprints[b].tier["casing"] \in {1, 2}}

\* C26: a recomputation takes exactly 1 off the reputation for each
\* blueprint that is High End or Flagship at the current global tech level
\* and has a casing of tier 2 or less, and nothing for any other blueprint,
\* next to the other signals and within 0..100; units ordered or in stock
\* play no part.
C26_CheapCasing ==
    [][\A i \in 1..Len(players) :
         CalculateBrandReputationChanges(i) =>
            LET expected == players[i].brand_reputation
                              - Cardinality(CheapCased(players[i],
                                                       game.global_tech_level))
                              - 2 * QualityCount(players[i], "Low")
                              + 2 * QualityCount(players[i], "High")
                              - 2 * SwingCount(players[i])
                              - RejectionPenalty(players[i])
            IN players'[i].brand_reputation =
                  (IF expected < 0 THEN 0
                   ELSE IF expected > 100 THEN 100 ELSE expected)]_vars

\* the first recomputation after two blueprints were created, of which
\* exactly one is a High End or Flagship phone with a cheap casing, and no
\* unit was ordered, made or sold: 50 - 1
C26_Witness ==
    /\ obs.calls = 1
    /\ obs.orders = 0
    /\ Len(players[1].blueprints) = 2
    /\ Cardinality(CheapCased(players[1], game.global_tech_level)) = 1
    /\ players[1].manufacturing_queue = <<>>
    /\ players[1].manufactured_phones = <<>>
    /\ players[1].sold_devices = <<>>
    /\ players[1].brand_reputation = 49

-----------------------------------------------------------------------------
(* ReturnsSpec: generate_monthly_repairs month after month on a player that
   has sold units of some of its products, of a product whose return rate
   is 0 and of a product whose blueprint it deleted *)

\* a tier-10 phone with a High screen and a High casing: return rate 0
Sturdy ==
    PhoneBlueprint("Sturdy", UniformParts(10, 0), UniformQuality("High"), 5000)

SoldCounts == {10, 30, 100}   \* units sold of a product (or none)

\* the sold_devices of the scenario: any of the three names, in this order
SoldChoices ==
    {SelectSeq(<<<<"CamLo", a>>, <<"Sturdy", b>>, <<"Ghost", c>>>>,
               LAMBDA e : e[2] > 0) :
        a \in SoldCounts \cup {0}, b \in {0, 100}, c \in {0, 100}}

ReturnsInit ==
    /\ \E sold \in SoldChoices, pending \in PendingAtStart :
         players = <<[Player("P1") EXCEPT
                        !.blueprints = <<Maker("P1", CamLo).blueprints[1], Sturdy>>,
                        !.sold_devices = sold,
                        !.pending_repairs = pending]>>
    /\ market = CustomerMarket
    /\ game = Game
    /\ obs = Obs0
    /\ probe = NoProbe

\* new_repairs = player.generate_monthly_repairs(); probe keeps what the
\* call returned
MonthlyRepairs(i, lucky) ==
    /\ obs.calls < MaxCalls
    /\ LET r == generate_monthly_repairs(players[i], lucky)
       IN /\ players' = [players EXCEPT ![i] = r.player]
          /\ probe' = [kind |-> "repairs", player |-> i,
                       new_repairs |-> r.new_repairs]
    /\ obs' = [obs EXCEPT !.calls = @ + 1]
    /\ UNCHANGED <<market, game>>

ReturnsNext ==
    \E i \in 1..Len(players) :
       \E lucky \in SUBSET FractionalRepairs(players[i]) : MonthlyRepairs(i, lucky)

ReturnsSpec == ReturnsInit /\ [][ReturnsNext]_vars

\* the whole part of sold * rate / 100 for a product of the player, 0 when
\* nothing can return (the rate is counted in quarters of a percent)
WholeReturns(player, name) ==
    LET sold == DictGet(player.sold_devices, name, 0)
    IN IF sold <= 0 \/ ~HasBlueprint(player, name) THEN 0
       ELSE (sold * get_repair_return_rate4(FindBlueprint(player, name))) \div 400

\* whether anything can return: units sold, a blueprint, a positive rate
CanReturn(player, name) ==
    /\ DictGet(player.sold_devices, name, 0) > 0
    /\ HasBlueprint(player, name)
    /\ get_repair_return_rate4(FindBlueprint(player, name)) > 0

\* C27: generate_monthly_repairs adds to the pending repairs of each product
\* floor(sold * rate / 100) or one more, adds nothing for a product with no
\* units sold, a return rate of 0 or no blueprint, lowers no pending count,
\* and returns exactly the increments it applied.
C27_RepairIncrements ==
    [][\A i \in 1..Len(players) :
         (obs'.calls = obs.calls + 1 /\ probe'.kind = "repairs"
            /\ probe'.player = i) =>
            \A name \in DictKeys(players[i].sold_devices)
                          \cup DictKeys(players[i].pending_repairs)
                          \cup DictKeys(players'[i].pending_repairs)
                          \cup DictKeys(probe'.new_repairs) :
               LET before == DictGet(players[i].pending_repairs, name, 0)
                   after == DictGet(players'[i].pending_repairs, name, 0)
                   whole == WholeReturns(players[i], name)
               IN /\ after >= before
                  /\ after - before \in {whole, whole + 1}
                  /\ ~CanReturn(players[i], name) => after = before
                  /\ DictGet(probe'.new_repairs, name, 0) = after - before
                  /\ DictHas(probe'.new_repairs, name) => after > before]_vars

\* a call that added floor + 1 for CamLo (30 sold at 5 %: 1.5, so 2), nothing
\* for the product with rate 0 and nothing for the one without blueprint,
\* next to pending repairs of a name that stayed as it was
C27_Witness ==
    /\ probe.kind = "repairs"
    /\ obs.calls = 1
    /\ players[1].sold_devices = <<<<"CamLo", 30>>, <<"Sturdy", 100>>, <<"Ghost", 100>>>>
    /\ probe.new_repairs = <<<<"CamLo", 2>>>>
    /\ players[1].pending_repairs = <<<<"CamLo", 5>>, <<"TestPhone", 10>>>>

-----------------------------------------------------------------------------
(* Retention and purchases of one pass (RetentionSpec) *)

\* C28: a pass books a retention change for a cohort only when that cohort
\* buys at least one unit in the pass; a cohort that is in the market and
\* finds no product of its tier, or the winner sold out, changes nobody's
\* reputation. The code books the change when the cohort enters the market,
\* before it looks for a product, and again in every pass the cohort waits.
C28_RetentionOnPurchase ==
    \A e \in obs.retention_events :
        \E p \in obs.purchases :
            /\ p.group_idx = e.group_idx
            /\ p.actual_buy_count >= 1

-----------------------------------------------------------------------------
(* When ordered units reach the inventory (the game, Spec) *)

\* the month advances: one advance_game_month
MonthStep == game'.global_month = game.global_month + 1

\* what the sales pass of the advance found in stock of a player's product
SeenByPass(player, name) ==
    DictGet(obs'.inventory_at_start, <<player.name, name>>, 0)

\* C29: the units ordered in month 1 ("will complete instantly, ready to
\* sell this month") are in the inventory the month-1 sales pass sees. In
\* the code they wait in the queue until complete_manufacturing, which
\* advance_game_month runs after that pass.
C29_MonthOneOrders ==
    [][(MonthStep /\ game.global_month = 1) =>
        \A i \in 1..Len(players) :
           \A k \in 1..Len(players[i].manufacturing_queue) :
              LET order == players[i].manufacturing_queue[k]
              IN SeenByPass(players[i], order[1]) >= order[2]]_vars

\* C30: the units ordered in a month m >= 2 ("will complete at end of
\* month, ready to sell next month") are in the inventory the sales pass of
\* month m + 1 sees. In month m + 1 such an order stands in the queue with
\* 0 months left; complete_manufacturing moves it to the inventory after the
\* pass of that month.
C30_LaterOrders ==
    [][(MonthStep /\ game.global_month >= 3) =>
        \A i \in 1..Len(players) :
           \A k \in 1..Len(players[i].manufacturing_queue) :
              LET order == players[i].manufacturing_queue[k]
              IN order[3] = 0 =>
                   SeenByPass(players[i], order[1]) >= order[2]]_vars

-----------------------------------------------------------------------------
(* The manufacturing queue over the months of a game (Spec) *)

\* the units of a product in the batches of a queue that have no month left
CompletedUnits(queue, name) ==
    SumSeq([k \in 1..Len(queue) |->
              IF queue[k][1] = name /\ queue[k][3] <= 0 THEN queue[k][2] ELSE 0])

\* C31: every accepted batch enters the queue with 0 or 1 month left; a
\* month advance moves each batch with no month left into
\* manufactured_phones, with exactly its quantity, and takes it off the
\* queue, and leaves every other batch with no month left, so a batch is
\* completed by the second advance at the latest; no other step changes a
\* queued batch.
C31_BatchesComplete ==
    [][\A i \in 1..Len(players) :
         Len(players') = Len(players) =>
           LET queue == players[i].manufacturing_queue
               after == players'[i].manufacturing_queue
               waiting == SelectSeq(queue, LAMBDA b : b[3] > 0)
           IN IF MonthStep
              THEN /\ after = [k \in 1..Len(waiting) |->
                                 <<waiting[k][1], waiting[k][2], 0>>]
                   /\ \A name \in {bp.name : bp \in Range(players[i].blueprints)} :
                        DictGet(players'[i].manufactured_phones, name, 0)
                          = DictGet(players[i].manufactured_phones, name, 0)
                              - UnitsSold(obs', players, i, name)
                              + CompletedUnits(queue, name)
              ELSE /\ \/ after = queue
                      \/ \E b \in Range(after) :
                            /\ after = Append(queue, b)
                            /\ b[2] >= 1
                            /\ b[3] \in {0, 1}
                   /\ players'[i].manufactured_phones
                        = players[i].manufactured_phones]_vars

\* month 4: the 1000 units ordered in month 2 waited through the advance to
\* month 3 and were completed by the advance to month 4
C31_Witness ==
    /\ game.global_month = 4
    /\ obs.orders = 1
    /\ \E i \in 1..Len(players) :
          /\ players[i].manufacturing_queue = <<>>
          /\ players[i].manufactured_phones = <<<<"CamLo", 1000>>>>
          /\ players[i].sold_devices = <<>>

-----------------------------------------------------------------------------
(* The calendar of a game (TechSpec) *)

\* the months agree and the countdown and the level follow from the month
InStep ==
    /\ game.months_until_tech_advance >= 1
    /\ game.months_until_tech_advance <= 36
    /\ game.global_tech_level = 1 + ((game.global_month - 1) \div 36)
    /\ market.current_month = game.global_month
    /\ \A i \in 1..Len(players) : players[i].current_month = game.global_month

-----------------------------------------------------------------------------
(* TurnSpec: the players of a game take turns at the main menu; probe holds
   current_player_index (from 1), players_ready_for_next_month, and the
   players that chose Advance Month since the last advance *)

\* the names given to setup_players: one player, two players, and two
\* players of the same name
TurnNames == {<<"P1">>, <<"P1", "P2">>, <<"P1", "P1">>}

TurnInit ==
    /\ \E names \in TurnNames : players = [i \in 1..Len(names) |-> Player(names[i])]
    /\ market = [initialize_market(CustomerMarket) EXCEPT !.current_month = 1]
    /\ game = Game
    /\ obs = Obs0
    /\ probe = [kind |-> "turn", current_player_index |-> 1, ready |-> {},
                chosen |-> {}]

\* "if len(self.players_ready_for_next_month) == len(self.players)" with a
\* single ready player taken for all
AllReady_any(ready, ps) == ready # {}

\* main_menu, line 2304
AllReady(ready, ps) == Cardinality(ready) = Len(ps)

\* main_menu, choice 1: the current player is ready; the month advances when
\* all are, otherwise the turn passes to the next player
ChooseAdvance ==
    /\ game.global_month < MaxMonth
    /\ LET i == probe.current_player_index
           ready == probe.ready \cup {players[i].name}
       IN IF AllReady(ready, players)
          THEN /\ AdvanceWorld(obs)
               /\ probe' = [probe EXCEPT !.ready = {}, !.chosen = {}]
          ELSE /\ probe' = [probe EXCEPT
                              !.ready = ready,
                              !.chosen = @ \cup {i},
                              !.current_player_index = (i % Len(players)) + 1]
               /\ UNCHANGED <<players, market, game, obs>>

\* main_menu, choice 10: next_player when there are several
NextPlayer ==
    /\ Len(players) > 1
    /\ probe' = [probe EXCEPT
                   !.current_player_index = (@ % Len(players)) + 1]
    /\ UNCHANGED <<players, market, game, obs>>

TurnNext ==
    \/ ChooseAdvance
    \/ NextPlayer
    \/ \E d \in GameDesigns : CreateBlueprint(probe.current_player_index, d)

TurnSpec == TurnInit /\ [][TurnNext]_vars

-----------------------------------------------------------------------------
(* LoadSpec: a game that is saved, and loaded again by a new run of the
   program *)

\* Game.to_dict (current_player_index and players_ready_for_next_month are
\* not part of the state kept here)
Game_to_dict(ps, m, g) ==
    << <<"players", [i \in 1..Len(ps) |-> Player_to_dict(ps[i])]>>,
       <<"global_month", g.global_month>>,
       <<"global_tech_level", g.global_tech_level>>,
       <<"months_until_tech_advance", g.months_until_tech_advance>>,
       <<"customer_market", CustomerMarket_to_dict(m)>> >>

\* Game.from_dict
Game_from_dict(data) ==
    LET ps == DictGet(data, "players", <<>>)
    IN World([i \in 1..Len(ps) |-> Player_from_dict(ps[i])],
             IF DictHas(data, "customer_market")
             THEN CustomerMarket_from_dict(DictGet(data, "customer_market", <<>>))
             ELSE CustomerMarket,
             [global_month |-> DictGet(data, "global_month", 1),
              global_tech_level |-> DictGet(data, "global_tech_level", 1),
              months_until_tech_advance |->
                  DictGet(data, "months_until_tech_advance", 36)])

\* Game.run, choice 2, on the new Game(): "self.players = loaded_game.players"
\* (and current_player_index); nothing else is taken from the loaded game
run_load(data) ==
    LET loaded_game == Game_from_dict(data)
    IN World(loaded_game.players, CustomerMarket, Game)

\* the game is saved (menu choice 9), the program is left and started
\* again, and the save is loaded
SaveAndLoad ==
    /\ players # <<>>
    /\ obs.calls < MaxLoads
    /\ \E w \in {run_load(Game_to_dict(players, market, game))} :
          /\ players' = w.players
          /\ market' = w.market
          /\ game' = w.game
    /\ obs' = [obs EXCEPT !.calls = @ + 1]
    /\ UNCHANGED probe

LoadNext ==
    \/ Next
    \/ SaveAndLoad

LoadSpec == Init /\ [][LoadNext]_vars

\* C36: after a save has been loaded the running game has the saved
\* players, the saved market with its cohorts and month, and the saved
\* global_month, global_tech_level and months_until_tech_advance. Game.run
\* takes the players only: the market of the running game is the empty one
\* of Game.__init__ and its calendar starts again at month 1.
C36_LoadRestores ==
    [][obs'.calls = obs.calls + 1 =>
         /\ players' = players
         /\ market' = market
         /\ game' = game]_vars

-----------------------------------------------------------------------------
(* R&D through the menu (TechSpec) *)

\* the player can pay the R&D of the next tier of some part below MAX_TIER
CanPayRnD(player) ==
    \E part \in Range(ALL_PARTS) :
       /\ player.unlocked_tiers[part] + 1 <= MAX_TIER
       /\ player.money >= RND_CONFIG[player.unlocked_tiers[part] + 1][1]

\* C39: R&D is usable in a game: a player with the money for the next tier
\* of a part has some part whose next tier start_rnd accepts when it is
\* called, as the R&D menu calls it, with the game's available tier range.
C39_RnDUsable ==
    \A i \in 1..Len(players) :
       CanPayRnD(players[i]) =>
          \E part \in Range(ALL_PARTS) : menu_rnd(players[i], part, game).ok

\* no R&D project was ever accepted: no player has an ongoing project, and
\* every unlocked tier is the one the tech advancements gave
NoRnD ==
    \A i \in 1..Len(players) :
       /\ players[i].ongoing_rnd = <<>>
       /\ \A part \in Range(ALL_PARTS) :
             players[i].unlocked_tiers[part] = game.global_tech_level + 4

-----------------------------------------------------------------------------
(* PlaySpec: one player's game from the start: blueprints are created and
   deleted, phones ordered, R&D asked for, repairs paid or rejected, and the
   months advance *)

\* a second design, given away: nothing comes back from its sales
Gift == [CamHi EXCEPT !.name = "Gift", !.sell_price = 0]
PlayDesigns == {CamLo, Gift}
PlayOrders == {400, 700}      \* quantities asked of manufacture_phone
PlayRepairs == {5}            \* quantities asked of repair_devices
PlayRejects == {10}           \* quantities asked of reject_repairs
PlayParts == {"camera"}       \* parts asked of start_rnd

\* a call of an operation of player i that returned r; the accepted calls
\* of a game are counted
PlayerCall(i, r) ==
    /\ obs.calls < MaxCalls
    /\ players' = [players EXCEPT ![i] = r.player]
    /\ obs' = [obs EXCEPT !.calls = IF r.ok THEN @ + 1 ELSE @]
    /\ UNCHANGED <<market, game, probe>>

\* all players chose Advance Month, in the first months of the game
PlayMonth ==
    /\ game.global_month <= MaxTechMonths
    /\ AdvanceMonth(obs)

PlayNext ==
    \/ SetupPlayers(1)
    \/ \E i \in 1..Len(players), d \in PlayDesigns :
         LET range == get_available_tier_range(game)
         IN PlayerCall(i, create_blueprint(players[i], d.name, d.parts, d.sell_price,
                                          d.quality, range[1], range[2]))
    \/ \E i \in 1..Len(players) :
         \* nine more blueprints, created one after the other
         PlayerCall(i, [ok |-> Filled(players[i], 1) # players[i],
                        player |-> Filled(players[i], 1)])
    \/ \E i \in 1..Len(players), d \in PlayDesigns :
         PlayerCall(i, delete_blueprint(players[i], d.name))
    \/ \E i \in 1..Len(players), d \in PlayDesigns, q \in PlayOrders :
         PlayerCall(i, manufacture_phone(players[i], d.name, q))
    \/ \E i \in 1..Len(players), part \in PlayParts :
         PlayerCall(i, start_rnd(players[i], part,
                                 players[i].unlocked_tiers[part] + 1, 1, MAX_TIER))
    \/ \E i \in 1..Len(players), part \in PlayParts :
         PlayerCall(i, menu_rnd(players[i], part, game))
    \/ \E i \in 1..Len(players), d \in PlayDesigns, q \in PlayRepairs :
         PlayerCall(i, repair_devices(players[i], d.name, q))
    \/ \E i \in 1..Len(players) : PlayerCall(i, repair_all_devices(players[i]))
    \/ \E i \in 1..Len(players), d \in PlayDesigns, q \in PlayRejects :
         PlayerCall(i, reject_repairs(players[i], d.name, q))
    \/ PlayMonth

PlaySpec == Init /\ [][PlayNext]_vars

-----------------------------------------------------------------------------
(* Properties of a player's game (PlaySpec) *)

\* C32: per player, 0 <= manufacturing_used_this_month <= 1000 in every
\* state; between two month advances the counter grows by exactly the
\* quantity of each order manufacture_phone accepts (the batch appended to
\* the queue) and by nothing else, so the accepted total of a month never
\* exceeds 1000; every month advance resets it to 0.
C32_MonthlyCapacity ==
    [][ /\ \A i \in 1..Len(players') :
             /\ players'[i].manufacturing_used_this_month >= 0
             /\ players'[i].manufacturing_used_this_month
                   <= MANUFACTURING_LIMIT_PER_MONTH
        /\ (MonthStep =>
              \A i \in 1..Len(players') :
                 players'[i].manufacturing_used_this_month = 0)
        /\ (~MonthStep /\ Len(players') = Len(players) =>
              \A i \in 1..Len(players) :
                 LET queue == players[i].manufacturing_queue
                     after == players'[i].manufacturing_queue
                     ordered == IF after = queue THEN 0 ELSE after[Len(after)][2]
                 IN /\ after # queue =>
                          /\ Len(after) = Len(queue) + 1
                          /\ SubSeq(after, 1, Len(queue)) = queue
                    /\ players'[i].manufacturing_used_this_month =
                          players[i].manufacturing_used_this_month + ordered)
      ]_vars

\* two orders of 400 were accepted in month 2, after the reset of the
\* month advance, and the capacity left is below the smallest order
C32_Witness ==
    /\ game.global_month = 2
    /\ Len(players) = 1
    /\ players[1].manufacturing_used_this_month = 800
    /\ Len(players[1].manufacturing_queue) = 2

\* what the step cost player i: the production cost of the batch it queued,
\* the cost of the R&D project it started, the repair cost of the pending
\* repairs it paid (rejected repairs are not paid), and otherwise nothing
Spent(i) ==
    LET before == players[i]
        after == players'[i]
    IN IF after.manufacturing_queue # before.manufacturing_queue
       THEN LET batch == after.manufacturing_queue[Len(after.manufacturing_queue)]
            IN get_production_cost(FindBlueprint(before, batch[1])) * batch[2]
       ELSE IF after.ongoing_rnd # before.ongoing_rnd
       THEN RND_CONFIG[after.ongoing_rnd[Len(after.ongoing_rnd)].target_tier][1]
       ELSE IF after.rejected_repairs_this_month = before.rejected_repairs_this_month
       THEN RepairAllCost(before, before.pending_repairs, 1)
              - RepairAllCost(before, after.pending_repairs, 1)
       ELSE 0

\* C33: a player's money is never negative when the sell prices are not:
\* a call of manufacture_phone, start_rnd, repair_devices, repair_all_devices
\* or reject_repairs takes exactly the cost of what it accepted, once, and
\* only when the player has it; a month advance, with its sales pass, takes
\* nothing.
C33_MoneyNotNegative ==
    [][ Len(players') = Len(players) =>
          \A i \in 1..Len(players) :
             /\ players'[i].money >= 0
             /\ IF MonthStep
                THEN players'[i].money >= players[i].money
                ELSE /\ players'[i].money = players[i].money - Spent(i)
                     /\ Spent(i) >= 0
      ]_vars

\* units were sold and some came back for repair, and the player, with no
\* R&D project yet, has neither the money for the R&D of the next camera
\* tier nor for 400 more units of a design of its catalog
C33_Witness ==
    /\ Len(players) = 1
    /\ players[1].sold_devices # <<>>
    /\ players[1].pending_repairs # <<>>
    /\ players[1].ongoing_rnd = <<>>
    /\ players[1].money < RND_CONFIG[players[1].unlocked_tiers["camera"] + 1][1]
    /\ \E k \in 1..Len(players[1].blueprints) :
          players[1].money < get_production_cost(players[1].blueprints[k]) * 400

\* C40: no dangling product references on the manufacturer side: every name
\* with positive inventory, with a pending-repair entry or with a batch in
\* the manufacturing queue is the name of a blueprint of that player; the
\* blueprint names of a player are all different; and a player has at most
\* MAX_BLUEPRINTS blueprints.
C40_NoDanglingNames ==
    \A i \in 1..Len(players) :
       LET player == players[i]
       IN /\ \A k \in 1..Len(player.manufactured_phones) :
                player.manufactured_phones[k][2] > 0 =>
                   HasBlueprint(player, player.manufactured_phones[k][1])
          /\ \A k \in 1..Len(player.pending_repairs) :
                HasBlueprint(player, player.pending_repairs[k][1])
          /\ \A k \in 1..Len(player.manufacturing_queue) :
                HasBlueprint(player, player.manufacturing_queue[k][1])
          /\ \A a, b \in 1..Len(player.blueprints) :
                player.blueprints[a].name = player.blueprints[b].name => a = b
          /\ Len(player.blueprints) <= MAX_BLUEPRINTS

\* the catalog is full and a design that is not in it is refused; a design
\* of the catalog has units in stock, in the queue or awaiting repair and
\* its deletion is refused
C40_Witness ==
    /\ Len(players) = 1
    /\ Len(players[1].blueprints) = MAX_BLUEPRINTS
    /\ \E d \in PlayDesigns :
          /\ ~HasBlueprint(players[1], d.name)
          /\ ~create_blueprint(players[1], d.name, d.parts, d.sell_price, d.quality,
                               1, MAX_TIER).ok
    /\ \E d \in PlayDesigns :
          /\ HasBlueprint(players[1], d.name)
          /\ \/ DictGet(players[1].manufactured_phones, d.name, 0) > 0
             \/ DictGet(players[1].pending_repairs, d.name, 0) > 0
             \/ \E k \in 1..Len(players[1].manufacturing_queue) :
                   players[1].manufacturing_queue[k][1] = d.name
          /\ ~delete_blueprint(players[1], d.name).ok

-----------------------------------------------------------------------------
(* Cohorts whose product was deleted (LookupSpec) *)

\* the replacement time of a cohort that owns a product: the lifecycle, for
\* its customer type, of the design it bought
ReplacementTime(group) ==
    LET d == CHOOSE d \in Designs : d.name = group.owned_phone_blueprint
    IN calculate_phone_lifecycle(
           PhoneBlueprint(d.name, d.parts, d.quality, d.sell_price),
           group.customer_type)

\* C37: a cohort that owns a product becomes in-market again: in a sales
\* pass with phones in stock, held in a month in which the cohort's months
\* since purchase have reached its replacement time, the cohort contributes
\* its full count to demand, whether or not the player has deleted the
\* blueprint in the meantime.
C37_BackInMarket ==
    [][ PassStep /\ AvailablePhones(players, 1) # <<>> =>
          \A k \in 1..Len(market.customer_groups) :
             LET group == market.customer_groups[k]
                 current_month == market'.current_month
             IN ( /\ group.owned_phone_company # None
                  /\ current_month - group.purchase_month >= ReplacementTime(group) )
                => Demand(players, group, AvailablePhones(players, 1), current_month,
                          game.global_tech_level).should_buy_count = group.count
      ]_vars

\* the same for the cohorts whose product is still in its maker's catalog
InCatalogBackInMarket ==
    [][ PassStep /\ AvailablePhones(players, 1) # <<>> =>
          \A k \in 1..Len(market.customer_groups) :
             LET group == market.customer_groups[k]
                 current_month == market'.current_month
             IN ( /\ group.owned_phone_company # None
                  /\ ~Orphan(players, group)
                  /\ current_month - group.purchase_month >= ReplacementTime(group) )
                => Demand(players, group, AvailablePhones(players, 1), current_month,
                          game.global_tech_level).should_buy_count = group.count
      ]_vars

-----------------------------------------------------------------------------
(* Cohorts whose best product is sold out (ScarceSpec) *)

\* ScarceSpec: the two makers of MarketSpec with stock for part of a cohort
\* only: before a round the harness stocks one product scarcely, and leaves
\* the other as it is or stocks it for everyone
ScarceStock == {100, 700}     \* the scarce inventory set before a round
ScarceSteps == {CAMERA_CHECK_INTERVAL}   \* months between two rounds

\* maker i is restocked with q units before the round, the others with h
BothRestockedRound(d, i, q, h) ==
    SalesRound(d, [j \in 1..Len(players) |->
                     [players[j] EXCEPT !.manufactured_phones =
                         DictPut(@, players[j].blueprints[1].name,
                                 IF j = i THEN q ELSE h)]])

ScarceNext ==
    \/ InitializeMarket
    \/ \E d \in ScarceSteps, i \in 1..Len(players), q \in ScarceStock :
         \E k \in 1..Len(players[i].blueprints) : RestockedRound(d, i, k, q)
    \/ \E d \in ScarceSteps, i \in 1..Len(players), q \in ScarceStock,
          h \in HoldStock :
         BothRestockedRound(d, i, q, h)

ScarceSpec == MarketInit /\ [][ScarceNext]_vars

\* available_phones of the pass whose inventory at the start was inventory
PassPhones(inventory, ps) ==
    [k \in 1..Len(inventory) |->
        LET pi == PlayerIdx(ps, inventory[k][1][1])
        IN <<pi, FindBlueprint(ps[pi], inventory[k][1][2])>>]

\* the candidate of the highest score, the first one when several tie
BestCandidate(cands, ps, customer_type) ==
    LET sc(k) == ScoreOf(ps, customer_type, cands[k][1])
    IN cands[CHOOSE w \in 1..Len(cands) :
                /\ \A j \in 1..Len(cands) : sc(j) <= sc(w)
                /\ \A j \in 1..(w - 1) : sc(j) < sc(w)]

\* units of the product key bought in the pass by the groups before group k
RECURSIVE SoldBefore(_, _, _)
SoldBefore(purchases, key, k) ==
    IF k <= 1 THEN 0
    ELSE LET es == {e \in purchases : /\ e.group_idx = k - 1
                                       /\ <<e.company, e.blueprint>> = key}
         IN (IF es = {} THEN 0 ELSE (CHOOSE e \in es : TRUE).actual_buy_count)
            + SoldBefore(purchases, key, k - 1)

\* in the pass of this step group k is in-market and the product of its tier
\* with the highest score, among those in stock at the start of the pass, is
\* sold out when the group is processed
LeftOut(k) ==
    LET group == market.customer_groups[k]
        inventory == obs'.inventory_at_start
        d == Demand(players, group, PassPhones(inventory, players),
                    market'.current_month, game.global_tech_level)
        cands == Candidates(inventory, players, group.tier, game.global_tech_level)
    IN /\ d.should_buy_count > 0
       /\ cands # <<>>
       /\ LET best == BestCandidate(cands, players, group.customer_type)
          IN SoldBefore(obs'.purchases, best[1], k) >= best[2]

\* the group came into the market through the camera check of this pass
CameraChecked(k) ==
    Demand(players, market.customer_groups[k],
           PassPhones(obs'.inventory_at_start, players),
           market'.current_month, game.global_tech_level).checked

\* C38 as stated: a cohort whose best product was sold out by the cohorts
\* processed before it buys nothing in the pass and is left exactly as it
\* was, whatever else of its tier is in stock.
C38_LeftOutUnchanged ==
    [][PassStep =>
         \A k \in 1..Len(market.customer_groups) :
            LeftOut(k) =>
               /\ \A e \in obs'.purchases : e.group_idx # k
               /\ market'.customer_groups[k] = market.customer_groups[k]]_vars

\* C38: an in-market cohort considers only the product of its tier with the
\* highest score among those in stock at the start of the pass: when the
\* cohorts processed before it have sold that product out, the cohort buys
\* nothing in the pass, whatever else of its tier is in stock, and keeps
\* its count, its product and its purchase month; only the last-check
\* marker of a cohort that came into the market through its camera check is
\* set to the month of the pass.
C38_LeftOutBuysNothing ==
    [][PassStep =>
         \A k \in 1..Len(market.customer_groups) :
            LeftOut(k) =>
               /\ \A e \in obs'.purchases : e.group_idx # k
               /\ market'.customer_groups[k] =
                     [market.customer_groups[k] EXCEPT
                        !.last_camera_check_month =
                           IF CameraChecked(k) THEN market'.current_month ELSE @]]_vars

\* after the second round: a cohort without a phone bought nothing because
\* the cohorts before it had sold out its best product, while the other
\* product of its tier is still in stock after the pass; and a Camera
\* Enthusiast cohort that owns a product made its check in the pass and
\* bought nothing
C38_Witness ==
    /\ obs.rounds = 2
    /\ \E k \in 1..Len(market.customer_groups) :
          LET group == market.customer_groups[k]
              cands == Candidates(obs.inventory_at_start, players, group.tier,
                                  game.global_tech_level)
          IN /\ group.owned_phone_company = None
             /\ Len(cands) = 2
             /\ \A e \in obs.purchases : e.group_idx # k
             /\ LET best == BestCandidate(cands, players, group.customer_type)
                IN /\ SoldBefore(obs.purchases, best[1], k) >= best[2]
                   /\ \E j \in 1..Len(cands) :
                         /\ cands[j] # best
                         /\ cands[j][2] > DictGet(obs.sales_by_phone, cands[j][1], 0)
    /\ \E k \in 1..Len(market.customer_groups) :
          LET group == market.customer_groups[k]
          IN /\ group.customer_type = "Camera Enthusiast"
             /\ group.owned_phone_company # None
             /\ group.purchase_month < market.current_month
             /\ group.last_camera_check_month = market.current_month
             /\ \A e \in obs.purchases : e.group_idx # k

=============================================================================
